---- MODULE Spec2Model ----
(***************************************************************************)
(* Simulation core of the survival game in src/game.py.                    *)
(*                                                                         *)
(* The module holds one state machine per subsystem, each over its own     *)
(* group of variables (the other groups stay at their idle values):        *)
(*   SpecMove     player movement, building, doors, wall solidity          *)
(*   SpecCombat   enemies, projectiles and the collision system            *)
(*   SpecHarvest  tree harvesting                                          *)
(*   SpecDirector the day/night clock and the encounter director           *)
(*   SpecNet      the reader thread of the NetworkManager                  *)
(*                                                                         *)
(* Lengths are in pixels.  The code computes in floats; the model keeps    *)
(* integers by taking the frame time dt as a whole number of frames of     *)
(* 1/FPS seconds for which PLAYER_SPEED*dt is a whole number of pixels,    *)
(* and by rounding the two derived steps (the diagonal step                *)
(* PLAYER_SPEED*dt/sqrt(2) and the edge-release nudge 0.3*PLAYER_SPEED*dt) *)
(* down to whole pixels.                                                   *)
(***************************************************************************)
EXTENDS Integers, Sequences, FiniteSets, TLC

VARIABLES
    \* ---- movement / building world (SpecMove)
    pos,                   \* PositionComponent of the local player, <<x, y>> (top-left)
    wood,                  \* PlayerComponent.wood
    ents,                  \* obstacle-layer entities in entity-id order
    last_interact_pressed, \* InteractionSystem.last_interact_pressed
    ticks,                 \* number of World.update calls so far
    vacated,               \* history: structures whose owner's rectangle has been
                           \* seen off their footprint at the end of some tick
    slideCase,             \* history: when the last tick was a diagonal move that one
                           \* obstacle blocked in x only, the position before it and
                           \* the input; NoSlide otherwise
    reverted,              \* history: when the final re-check of the last
                           \* _move_player found an overlap, the position before
                           \* the tick and the position it re-checked; NoRevert
                           \* otherwise
    penetrates,            \* history: at the end of the last MovementSystem.update the
                           \* player's hitbox met the rectangle of a solid obstacle
    frames,                \* dt of every GameWindow.update of this run, in 1/FPS s
    \* ---- combat world (SpecCombat; it shares ents, ticks and frames)
    players,               \* player entities in entity-id order
    enemies,               \* enemy entities in entity-id order
    projectiles,           \* projectile entities in entity-id order
    game_active,           \* GameWindow.game_active
    lethal,                \* history: the <<projectile, enemy>> pairs that the last
                           \* CollisionSystem.update marked for removal
    snap,                  \* history: the entities as the last
                           \* CollisionSystem.update found them
    \* ---- harvest world (SpecHarvest; it shares pos, wood, ticks and frames)
    trees,                 \* tree entities in entity-id order
    harvested,             \* history: the tree that the last HarvestSystem.update
                           \* found nearest in range with harvest pressed (0: none)
    \* ---- encounter director (SpecDirector; it shares ticks and frames)
    role,                  \* "single", "host" or "client"
    connected,             \* NetworkManager.connected
    is_night,              \* GameWindow.is_night
    cycle_time,            \* GameWindow.cycle_time, in frames of 1/FPS s
    day_count,             \* GameWindow.day_count
    enemy_spawn_timer,     \* GameWindow.enemy_spawn_timer, in frames of 1/FPS s
    enemy_count,           \* len(world.get_entities_with(EnemyComponent))
    \* ---- network reader (SpecNet; it shares connected)
    stream,                \* history: the payloads of the frames the peer sends
    wire,                  \* the bytes of the stream that recv has not returned yet
    pending_data,          \* NetworkManager.pending_data
    received_messages,     \* NetworkManager.received_messages
    enqueued,              \* history: every message appended to received_messages,
                           \* with the stream offset at which its frame began
    split_frames,          \* history: the frames inside which a recv chunk ended
    prefixes,              \* history: the length each frame's prefix announces
    reader_pc,             \* where the reader thread stands: "recv" or "parse"
    \* ---- ECS core (SpecWorld)
    entities,              \* World.entities: the ids of the entities in the World
    components,            \* Entity.components of every Entity object created:
                           \* id -> the component types it holds
    component_index,       \* World.component_index: type -> ids
    entities_to_remove,    \* World.entities_to_remove
    next_id,               \* Entity._next_id
    system_pc,             \* World.update: 0 outside it, k while system k runs
    marked_by,             \* history: entity marked in this tick -> the system
                           \* that called remove_entity (0: called between ticks)
    \* ---- the order of a tick (SpecOrder; it shares role, connected,
    \*      is_night, ticks and system_pc)
    systems,               \* World.systems
    stage,                 \* where GameWindow.update stands
    order,                 \* history: the subsystems run so far in this tick
    \* ---- state synchronisation (SpecSync; it shares role, connected, ticks
    \*      and enemy_count)
    now,                   \* time.time(), in ms
    last_send_time,        \* NetworkManager.last_send_time, in ms
    game_time,             \* GameWindow.game_time, in ms
    last_fire_time,        \* GameWindow.last_fire_time, in ms
    shots,                 \* the projectiles try_shoot created, oldest first
    calls,                 \* history: the number of send_data calls so far
    transmitted,           \* history: the messages handed to sendall, with the
                           \* call that carried each and its time
    skipped,               \* history: the send_data calls that returned False
                           \* on the send interval
    raised,                \* history: where an exception left GameWindow.update
    failed_at,             \* history: the tick in which the socket failed or the
                           \* peer closed (-1: not so far)
    \* ---- spatial index (SpecQuadTree)
    nodes,                 \* the QuadTree: path of a node from the root -> its
                           \* bounds and its objects list of <<rect, id>>
    inserted,              \* history: the rectangles inserted so far
    \* ---- building (SpecBuild; it shares the movement world)
    attempt,               \* history: the last try_build call: its kind, its
                           \* build_rect, and the wood and entities it found
    \* ---- the inbound queue (SpecQueue; it shares received_messages and
    \*      reader_pc)
    receive_lock,          \* NetworkManager.receive_lock: "free", or the
                           \* thread that holds it
    drain_pc,              \* where receive_data_non_blocking stands
    drained,               \* its local list `messages`
    decoded,               \* history: the number of messages decoded so far
    delivered,             \* history: the messages the drains returned
    \* ---- the reader thread and the sockets (SpecStop; it shares role and
    \*      connected)
    running,               \* NetworkManager.running
    receive_thread,        \* the reader thread: "none", at its loop "test", in
                           \* "recv", or "done"
    socket,                \* NetworkManager.socket: "none", "open" or "closed"
    client_socket,         \* NetworkManager.client_socket, likewise
    window,                \* the game window: "open" or "closed"
    checking,              \* GameWindow.check_connection is scheduled
    lost,                  \* history: the connection has been lost
    recvs,                 \* history: the number of chunks received
    orphans,               \* history: the open sockets that no attribute holds
    \* ---- the World's spatial index (SpecShots)
    spatial,                \* World.spatial is set
    sampled,                \* history: the enemies that spawn_enemy_ecs created from a sampled candidate
    entity_ids                \* Entity.id of the entities of ents, in the same order

moveVars == <<pos, wood, last_interact_pressed, vacated, slideCase, reverted,
              penetrates>>

combatVars == <<players, enemies, projectiles, game_active, lethal, snap>>

harvestVars == <<trees, harvested>>

directorVars == <<role, connected, is_night, cycle_time, day_count,
                  enemy_spawn_timer, enemy_count>>

netVars == <<stream, wire, pending_data, received_messages, enqueued, split_frames,
             prefixes, reader_pc>>

worldVars == <<entities, components, component_index, entities_to_remove,
               next_id, system_pc, marked_by>>

\* the variables of the earlier sections, for the later ones, and the reverse
earlierVars == <<moveVars, combatVars, harvestVars, directorVars, netVars,
                 ents, ticks, frames>>

orderVars == <<systems, stage, order>>

syncVars == <<now, last_send_time, game_time, last_fire_time, shots, calls,
              transmitted, skipped, raised, failed_at>>

treeVars == <<nodes, inserted>>

queueVars == <<receive_lock, drain_pc, drained, decoded, delivered>>

stopVars == <<running, receive_thread, socket, client_socket, window, checking,
              lost, recvs, orphans>>

moreVars == <<spatial, sampled, entity_ids>>

restVars == <<queueVars, stopVars, moreVars>>

lastVars == <<syncVars, treeVars, attempt, restVars>>

laterVars == <<worldVars, orderVars, lastVars>>

vars == <<pos, wood, ents, last_interact_pressed, ticks, vacated, slideCase,
          reverted, penetrates, frames, players, enemies, projectiles, game_active,
          lethal, snap, trees, harvested, role, connected, is_night,
          cycle_time, day_count, enemy_spawn_timer, enemy_count, stream, wire,
          pending_data, received_messages, enqueued, split_frames, prefixes,
          reader_pc, entities, components, component_index, entities_to_remove,
          next_id, system_pc, marked_by, systems, stage, order, now,
          last_send_time, game_time, last_fire_time, shots, calls, transmitted,
          skipped, raised, failed_at, nodes, inserted, attempt, receive_lock,
          drain_pc, drained, decoded, delivered, running, receive_thread,
          socket, client_socket, window, checking, lost, recvs, orphans,
          spatial,
          sampled,
          entity_ids>>

----------------------------------------------------------------------------
\* Program constants (src/game.py, CONSTANTS section)

FPS == 60
WORLD_WIDTH == 4000
WORLD_HEIGHT == 3000
PLAYER_SIZE == 30
PLAYER_HITBOX_MARGIN == 4
PLAYER_SPEED == 150
HARVEST_RANGE == 60
WALL_WOOD_COST == 1
GRID_SIZE == PLAYER_SIZE
WALL_SIZE == GRID_SIZE
CORNER_SLIDE_THRESHOLD == 8
PROJECTILE_SIZE == 10
PROJECTILE_SPEED == 10
ENEMY_SIZE == 25
ENEMY_SPEED == 2
ENEMY_PATHFINDING_RANGE == 50
INITIAL_ENEMY_SPAWN_RATE == 60
MIN_ENEMY_SPAWN_RATE == 10
MAX_ENEMIES == 150
\* DAY_LENGTH = 60.0 s and NIGHT_LENGTH = 45.0 s
DAY_LENGTH == 60
NIGHT_LENGTH == 45
NIGHT_MAX_ENEMIES_BASE == 300
NIGHT_MAX_ENEMIES_PER_DAY == 10
TREE_SIZE == 25
\* TREE_CHOP_TIME = 1.5 s, in frames of 1/FPS s
TREE_CHOP_FRAMES == (3 * FPS) \div 2

\* Bounds of the model
MaxTicks == 3
StartWood == 1
MaxCombatTicks == 2
MaxHarvestTicks == 4
MaxDirectorTicks == 420
MaxClientEnemies == 151
MaxFrames == 3
MaxEntities == 2
WorldSystems == 2
MaxOrderTicks == 2

Abs(n) == IF n < 0 THEN -n ELSE n
Max2(a, b) == IF a >= b THEN a ELSE b
Min2(a, b) == IF a <= b THEN a ELSE b

\* vel.speed * dt, and the two steps derived from it
AxialStep(dt) == (PLAYER_SPEED * dt) \div FPS
DiagStep(dt) == (AxialStep(dt) * 7071) \div 10000
SlideStep(dt) == (AxialStep(dt) * 3) \div 10

----------------------------------------------------------------------------
\* Utility functions

\* rectangles are <<x, y, width, height>>
check_collision(rect1, rect2) ==
    /\ rect1[1] < rect2[1] + rect2[3]
    /\ rect1[1] + rect1[3] > rect2[1]
    /\ rect1[2] < rect2[2] + rect2[4]
    /\ rect1[2] + rect1[4] > rect2[2]

snap_to_grid(x, y) ==
    << (x \div GRID_SIZE) * GRID_SIZE + GRID_SIZE \div 2,
       (y \div GRID_SIZE) * GRID_SIZE + GRID_SIZE \div 2 >>

\* Only an entity with a TreeComponent or a WallComponent is read as
\* centre-origin; every other entity (rock, door) is read as top-left origin.
\* A wall's size is even, so its width / 2 is a whole number.  A tree's size
\* is odd and its rectangle (x - 12.5, y - 12.5, 25, 25) has half-pixel
\* bounds: it meets exactly the whole-pixel rectangles that the rectangle
\* grown by half a pixel on each side meets, which stands for it here.
get_entity_rect(e) ==
    IF e.kind \in {"wall", "tree"}
    THEN << e.x - (e.w + 1) \div 2, e.y - (e.w + 1) \div 2,
            2 * ((e.w + 1) \div 2), 2 * ((e.w + 1) \div 2) >>
    ELSE << e.x, e.y, e.w, e.w >>

\* The centre-origin footprint that try_build, WallSystem and
\* InteractionSystem compute for a structure.
footprint(e) == << e.x - e.w \div 2, e.y - e.w \div 2, e.w, e.w >>

\* The player's hitbox at position (x, y): the rectangle inset by hitbox_margin.
hitbox(x, y) ==
    << x + PLAYER_HITBOX_MARGIN, y + PLAYER_HITBOX_MARGIN,
       PLAYER_SIZE - 2 * PLAYER_HITBOX_MARGIN, PLAYER_SIZE - 2 * PLAYER_HITBOX_MARGIN >>

\* The filter of SpatialPartitionSystem.update / gather_world_obstacles.
is_obstacle(e) ==
    \/ e.kind = "rock"
    \/ e.kind = "tree" /\ ~e.is_chopped
    \/ e.kind = "wall" /\ e.solid
    \/ e.kind = "door" /\ ~e.open /\ e.solid

----------------------------------------------------------------------------
\* MovementSystem

\* SpatialPartition.query('obstacles', rect) over the index that
\* SpatialPartitionSystem rebuilt from es at the start of the tick: the
\* indexed obstacles whose rectangle meets rect, in entity-id order.
RECURSIVE query_obstacles(_, _, _)
query_obstacles(es, rect, i) ==
    IF i > Len(es) THEN << >>
    ELSE IF is_obstacle(es[i]) /\ check_collision(rect, get_entity_rect(es[i]))
         THEN <<es[i]>> \o query_obstacles(es, rect, i + 1)
         ELSE query_obstacles(es, rect, i + 1)

\* move_x * vel.speed * dt after normalising the input vector
displacement(m, other, dt) ==
    IF m # 0 /\ other # 0 THEN m * DiagStep(dt) ELSE m * AxialStep(dt)

\* Variant: a collision with the full displacement blocks both axes (no
\* axis-separated sliding).
scan_obstacles_full_stop(obs, i, old, new, st) ==
    IF \E k \in 1..Len(obs) :
          check_collision(hitbox(new[1], new[2]), get_entity_rect(obs[k]))
    THEN [can_move_x |-> FALSE, can_move_y |-> FALSE, blocking |-> 1]
    ELSE st

\* The first loop of _move_player: which axes the obstacles block, and the
\* last obstacle found blocking (0: none).  The loop ends early once both
\* axes are blocked.
RECURSIVE scan_obstacles(_, _, _, _, _)
scan_obstacles(obs, i, old, new, st) ==
    IF i > Len(obs) THEN st
    ELSE LET r == get_entity_rect(obs[i]) IN
         IF check_collision(hitbox(new[1], new[2]), r)
         THEN LET cx == st.can_move_x /\ ~check_collision(hitbox(new[1], old[2]), r)
                  cy == st.can_move_y /\ ~check_collision(hitbox(old[1], new[2]), r)
                  st2 == [can_move_x |-> cx, can_move_y |-> cy, blocking |-> i]
              IN IF ~cx /\ ~cy THEN st2
                 ELSE scan_obstacles(obs, i + 1, old, new, st2)
         ELSE scan_obstacles(obs, i + 1, old, new, st)

\* any(check_collision(test, rect(o)) for o in obstacles if o != blocking)
others_hit(obs, blocking, test) ==
    \E i \in 1..Len(obs) :
        i # blocking /\ check_collision(test, get_entity_rect(obs[i]))

\* The edge-release nudge: new position after the optional perpendicular slide.
edge_release(obs, st, old, new, mx, my, dt) ==
    IF st.blocking = 0 \/ (st.can_move_x /\ st.can_move_y) THEN new
    ELSE LET r == get_entity_rect(obs[st.blocking])
             hs == PLAYER_SIZE - 2 * PLAYER_HITBOX_MARGIN
             cxp == old[1] + PLAYER_HITBOX_MARGIN + hs \div 2
             cyp == old[2] + PLAYER_HITBOX_MARGIN + hs \div 2
             top_dist == Abs(cyp - (r[2] + r[4]))
             bot_dist == Abs(cyp - r[2])
             right_dist == Abs(cxp - (r[1] + r[3]))
             left_dist == Abs(cxp - r[1])
             slideY(s) == IF others_hit(obs, st.blocking,
                                        hitbox(new[1], old[2] + s))
                          THEN new ELSE <<new[1], new[2] + s>>
             slideX(s) == IF others_hit(obs, st.blocking,
                                        hitbox(old[1] + s, new[2]))
                          THEN new ELSE <<new[1] + s, new[2]>>
         IN IF mx # 0 /\ ~st.can_move_x /\ st.can_move_y
            THEN IF top_dist < CORNER_SLIDE_THRESHOLD THEN slideY(SlideStep(dt))
                 ELSE IF bot_dist < CORNER_SLIDE_THRESHOLD THEN slideY(-SlideStep(dt))
                 ELSE new
            ELSE IF my # 0 /\ ~st.can_move_y /\ st.can_move_x
            THEN IF right_dist < CORNER_SLIDE_THRESHOLD THEN slideX(SlideStep(dt))
                 ELSE IF left_dist < CORNER_SLIDE_THRESHOLD THEN slideX(-SlideStep(dt))
                 ELSE new
            ELSE new

\* Variant: the final re-check gives back the old x only.
final_check_x_only(obs, old, final) ==
    IF \E i \in 1..Len(obs) :
          check_collision(hitbox(final[1], final[2]), get_entity_rect(obs[i]))
    THEN <<old[1], final[2]>> ELSE final

\* The final re-check: the resolved position, or the old one when the
\* resolved hitbox still meets one of the nearby obstacles.
final_check(obs, old, final) ==
    IF \E i \in 1..Len(obs) :
          check_collision(hitbox(final[1], final[2]), get_entity_rect(obs[i]))
    THEN old ELSE final

\* "Keep in world bounds", the last two lines of _move_player.
clamp_to_world(p) ==
    << Max2(PLAYER_SIZE \div 2, Min2(WORLD_WIDTH - PLAYER_SIZE \div 2, p[1])),
       Max2(PLAYER_SIZE \div 2, Min2(WORLD_HEIGHT - PLAYER_SIZE \div 2, p[2])) >>

\* the end of _move_player: blocked axes keep the old coordinate, the final
\* re-check, the clamp to the world, and the published velocity
move_result(obs, st, old, new0, new) ==
    [ pos |-> clamp_to_world(final_check(obs, old,
                  << IF st.can_move_x THEN new[1] ELSE old[1],
                     IF st.can_move_y THEN new[2] ELSE old[2] >>)),
      final |-> << IF st.can_move_x THEN new[1] ELSE old[1],
                   IF st.can_move_y THEN new[2] ELSE old[2] >>,
      velocity |-> << IF st.can_move_x THEN new[1] - old[1] ELSE 0,
                      IF st.can_move_y THEN new[2] - old[2] ELSE 0 >>,
      obs |-> obs, st |-> st, new0 |-> new0 ]

move_resolved(obs, st, old, new0, mx, my, dt) ==
    move_result(obs, st, old, new0, edge_release(obs, st, old, new0, mx, my, dt))

move_among(obs, old, new0, mx, my, dt) ==
    move_resolved(obs,
                  scan_obstacles(obs, 1, old, new0,
                      [can_move_x |-> TRUE, can_move_y |-> TRUE, blocking |-> 0]),
                  old, new0, mx, my, dt)

\* the rectangle of the obstacle query around the wanted position
query_rect(new0) ==
    << new0[1] - PLAYER_SIZE * 2, new0[2] - PLAYER_SIZE * 2,
       PLAYER_SIZE + PLAYER_SIZE * 2 * 2, PLAYER_SIZE + PLAYER_SIZE * 2 * 2 >>

move_towards(es, old, new0, mx, my, dt) ==
    move_among(query_obstacles(es, query_rect(new0), 1), old, new0, mx, my, dt)

\* MovementSystem._move_player on the obstacle index built from es.
move_player(es, old, mx, my, dt) ==
    move_towards(es, old,
                 << old[1] + displacement(mx, my, dt), old[2] + displacement(my, mx, dt) >>,
                 mx, my, dt)

----------------------------------------------------------------------------
\* InteractionSystem (doors) and WallSystem

player_center(p) == << p[1] + PLAYER_SIZE \div 2, p[2] + PLAYER_SIZE \div 2 >>

dist2(a, b) == (a[1] - b[1]) * (a[1] - b[1]) + (a[2] - b[2]) * (a[2] - b[2])

\* The nearest door within interact_range of the player's centre; on equal
\* distances the first in entity order (0: none).
nearby_door(es, p) ==
    LET c == player_center(p)
        d(i) == dist2(c, <<es[i].x, es[i].y>>)
        near == { i \in 1..Len(es) :
                    es[i].kind = "door" /\ d(i) <= HARVEST_RANGE * HARVEST_RANGE }
    IN IF near = {} THEN 0
       ELSE CHOOSE i \in near :
                \A j \in near : d(i) < d(j) \/ (d(i) = d(j) /\ i <= j)

\* "Check if something is blocking the door before allowing toggle"
door_is_blocked(es, p, d) ==
    \/ check_collision(footprint(es[d]), hitbox(p[1], p[2]))
    \/ \E j \in 1..Len(es) :
          j # d /\ check_collision(footprint(es[d]), get_entity_rect(es[j]))

\* InteractionSystem.update: the entities after the optional door toggle.
interaction_update(es, p, interact_pressed, last_pressed) ==
    LET d == nearby_door(es, p)
        just_pressed == interact_pressed /\ ~last_pressed
    IN IF d # 0 /\ just_pressed /\ ~door_is_blocked(es, p, d)
       THEN [es EXCEPT ![d].open = ~es[d].open]
       ELSE es

\* The rectangle WallSystem uses for the player: position and full size.
player_rect(p) == << p[1], p[2], PLAYER_SIZE, PLAYER_SIZE >>

\* Variant: the structure turns solid without the overlap test.
owner_clear_untested(p, e) == TRUE

\* The test of WallSystem.update that lets a structure turn solid.
owner_clear(p, e) == ~check_collision(player_rect(p), footprint(e))

\* WallSystem.update: walls turn solid, closed doors turn blocking, once the
\* owner's rectangle is off their footprint.
wall_system_update(es, p) ==
    [ i \in 1..Len(es) |->
        IF es[i].kind = "wall" /\ ~es[i].solid /\ owner_clear(p, es[i])
        THEN [es[i] EXCEPT !.solid = TRUE]
        ELSE IF es[i].kind = "door" /\ ~es[i].solid /\ ~es[i].open
                /\ owner_clear(p, es[i])
        THEN [es[i] EXCEPT !.solid = TRUE]
        ELSE es[i] ]

----------------------------------------------------------------------------
\* Building

\* Variant: the structure is created solid.
create_structure_solid(kind, x, y) ==
    [kind |-> kind, x |-> x, y |-> y, w |-> WALL_SIZE, solid |-> TRUE, open |-> FALSE]

\* create_wall / create_door: a structure centred on (x, y), not solid.
create_structure(kind, x, y) ==
    [kind |-> kind, x |-> x, y |-> y, w |-> WALL_SIZE, solid |-> FALSE, open |-> FALSE]

create_rock(x, y, size) ==
    [kind |-> "rock", x |-> x, y |-> y, w |-> size, solid |-> TRUE, open |-> FALSE]

\* Variant: every cell is free.
can_build_anywhere(es, g) == TRUE

\* The occupancy test of try_build for the cell centred on g.
can_build(es, g) ==
    LET build_rect == << g[1] - WALL_SIZE \div 2, g[2] - WALL_SIZE \div 2,
                         WALL_SIZE, WALL_SIZE >>
    IN \A i \in 1..Len(es) :
          IF es[i].kind = "rock"
          THEN ~check_collision(build_rect, << es[i].x, es[i].y, es[i].w, es[i].w >>)
          ELSE ~check_collision(build_rect, footprint(es[i]))

\* GameWindow.try_build for the selected building kind.
try_build(es, p, w, kind) ==
    LET c == player_center(p)
        g == snap_to_grid(c[1], c[2])
    IN IF w >= WALL_WOOD_COST /\ can_build(es, g)
       THEN [ents |-> Append(es, create_structure(kind, g[1], g[2])),
             wood |-> w - WALL_WOOD_COST]
       ELSE [ents |-> es, wood |-> w]

----------------------------------------------------------------------------
\* SpecMove: the player walks, builds and toggles doors near the top-right
\* corner of the world.

NoSlide == [pre |-> <<0, 0>>, move_y |-> 0]

NoRevert == [pre |-> <<0, 0>>, final |-> <<0, 0>>]

\* dt = 12/60 s: a step of one grid cell per update
MoveFrames == { 12 }

StartPositions == { <<3960, 2940>> }
StartRocks == << create_rock(3900, 2940, GRID_SIZE) >>

NoSnap == [players |-> << >>, enemies |-> << >>, projectiles |-> << >>]

\* No tree within reach.
HarvestIdle ==
    /\ trees = << >>
    /\ harvested = 0

\* An empty World outside World.update.
WorldIdle ==
    /\ entities = {}
    /\ components = [e \in {} |-> {}]
    /\ component_index = [t \in {} |-> {}]
    /\ entities_to_remove = {}
    /\ next_id = 0
    /\ system_pc = 0
    /\ marked_by = [e \in {} |-> 0]

\* No system registered, outside GameWindow.update.
OrderIdle ==
    /\ systems = << >>
    /\ stage = "idle"
    /\ order = << >>

\* try_build has not been called.
NoAttempt == [kind |-> "none", rect |-> <<0, 0, 0, 0>>, wood |-> 0, ents |-> << >>]

\* No message sent, no shot fired, the clocks at their start.
SyncIdle ==
    /\ now = 0
    /\ last_send_time = 0
    /\ game_time = 0
    /\ last_fire_time = 0
    /\ shots = << >>
    /\ calls = 0
    /\ transmitted = << >>
    /\ skipped = {}
    /\ raised = {}
    /\ failed_at = -1

\* No QuadTree built.
TreeIdle ==
    /\ nodes = << >>
    /\ inserted = << >>

\* Nobody holds the lock, nothing decoded, no drain under way.
QueueIdle ==
    /\ receive_lock = "free"
    /\ drain_pc = "idle"
    /\ drained = << >>
    /\ decoded = 0
    /\ delivered = << >>

\* No NetworkManager: a single-player game.
StopIdle ==
    /\ running = FALSE
    /\ receive_thread = "none"
    /\ socket = "none"
    /\ client_socket = "none"
    /\ window = "open"
    /\ checking = FALSE
    /\ lost = FALSE
    /\ recvs = 0
    /\ orphans = 0

\* GameWindow.__init__ gives the World its SpatialPartition.
ExtraIdle == sampled = {} /\ entity_ids = << >>

MoreIdle == spatial = TRUE /\ ExtraIdle

RestIdle == QueueIdle /\ StopIdle /\ MoreIdle

LastIdle == SyncIdle /\ TreeIdle /\ attempt = NoAttempt /\ RestIdle

LaterIdle == WorldIdle /\ OrderIdle /\ LastIdle

\* No peer: nothing on the wire.
NetIdle ==
    /\ stream = << >>
    /\ wire = << >>
    /\ pending_data = << >>
    /\ received_messages = << >>
    /\ enqueued = << >>
    /\ split_frames = {}
    /\ prefixes = << >>
    /\ reader_pc = "recv"

\* A single-player game at the start of its first day.
DirectorIdle ==
    /\ NetIdle
    /\ role = "single"
    /\ connected = FALSE
    /\ is_night = FALSE
    /\ cycle_time = 0
    /\ day_count = 1
    /\ enemy_spawn_timer = 0
    /\ enemy_count = 0

\* The combat world is empty.
CombatIdle ==
    /\ players = << >>
    /\ enemies = << >>
    /\ projectiles = << >>
    /\ game_active = TRUE
    /\ lethal = {}
    /\ snap = NoSnap

InitMove ==
    /\ LaterIdle
    /\ CombatIdle
    /\ HarvestIdle
    /\ DirectorIdle
    /\ pos \in StartPositions
    /\ wood = StartWood
    /\ ents = StartRocks
    /\ last_interact_pressed = FALSE
    /\ ticks = 0
    /\ vacated = {}
    /\ slideCase = NoSlide
    /\ reverted = NoRevert
    /\ penetrates = FALSE
    /\ frames \in MoveFrames

\* One World.update: InputSystem, SpatialPartitionSystem, MovementSystem,
\* InteractionSystem, WallSystem (the world holds no enemy, projectile or
\* stairs, and its trees stand out of reach of this corner, untouched, so
\* the other systems find nothing to do).
MoveTick(mx, my, space) ==
    /\ ticks < MaxTicks
    /\ \E m \in { move_player(ents, pos, mx, my, frames) } :
          /\ pos' = m.pos
          /\ ents' = wall_system_update(
                         interaction_update(ents, m.pos, space, last_interact_pressed),
                         m.pos)
          /\ vacated' = vacated \cup
                 { i \in 1..Len(ents) : ents[i].kind # "rock"
                      /\ ~check_collision(player_rect(m.pos), footprint(ents[i])) }
          /\ penetrates' =
                 \E i \in 1..Len(ents) :
                     /\ is_obstacle(ents[i])
                     /\ check_collision(hitbox(m.pos[1], m.pos[2]),
                                        get_entity_rect(ents[i]))
          /\ slideCase' =
                 IF /\ mx # 0 /\ my # 0
                    /\ Len(m.obs) = 1
                    /\ check_collision(hitbox(m.new0[1], m.new0[2]),
                                       get_entity_rect(m.obs[1]))
                    /\ check_collision(hitbox(m.new0[1], pos[2]),
                                       get_entity_rect(m.obs[1]))
                    /\ ~check_collision(hitbox(pos[1], m.new0[2]),
                                        get_entity_rect(m.obs[1]))
                 THEN [pre |-> pos, move_y |-> my]
                 ELSE NoSlide
          /\ reverted' =
                 IF \E i \in 1..Len(m.obs) :
                       check_collision(hitbox(m.final[1], m.final[2]),
                                       get_entity_rect(m.obs[i]))
                 THEN [pre |-> pos, final |-> m.final]
                 ELSE NoRevert
    /\ last_interact_pressed' = space
    /\ ticks' = ticks + 1
    /\ UNCHANGED <<wood, frames>>
    /\ UNCHANGED combatVars
    /\ UNCHANGED harvestVars
    /\ UNCHANGED directorVars
    /\ UNCHANGED netVars
    /\ UNCHANGED laterVars

\* The F key with the build menu open: try_build for the selected kind.
Build(kind) ==
    /\ LET b == try_build(ents, pos, wood, kind)
       IN ents' = b.ents /\ wood' = b.wood
    /\ UNCHANGED <<pos, last_interact_pressed, ticks, vacated, slideCase, reverted,
                   penetrates, frames>>
    /\ UNCHANGED combatVars
    /\ UNCHANGED harvestVars
    /\ UNCHANGED directorVars
    /\ UNCHANGED netVars
    /\ UNCHANGED laterVars

NextMove ==
    \/ \E mx \in {-1, 0, 1}, my \in {-1, 0, 1}, space \in BOOLEAN :
          MoveTick(mx, my, space)
    \/ \E kind \in {"wall", "door"} : Build(kind)

SpecMove == InitMove /\ [][NextMove]_vars

\* The same world where the player builds walls only.
NextWalls ==
    \/ \E mx \in {-1, 0, 1}, my \in {-1, 0, 1}, space \in BOOLEAN :
          MoveTick(mx, my, space)
    \/ Build("wall")

SpecWalls == InitMove /\ [][NextWalls]_vars

----------------------------------------------------------------------------
\* SpecSlide: one MovementSystem update from every position of a patch
\* beside a solid wall that the player built in the top row of cells, for
\* two frame times.  The column x = 3985 is the world's right bound.

SlideFrames == { 4, 12 }
SlideXs == (3920..3934) \cup { 3985 }
SlideYs == 2940..2985
SlideWall == [ create_structure("wall", 3975, 2985) EXCEPT !.solid = TRUE ]

InitSlide ==
    /\ LaterIdle
    /\ CombatIdle
    /\ HarvestIdle
    /\ DirectorIdle
    /\ pos \in SlideXs \X SlideYs
    /\ wood = 0
    /\ ents = << SlideWall >>
    /\ last_interact_pressed = FALSE
    /\ ticks = MaxTicks - 1
    /\ vacated = { 1 }
    /\ slideCase = NoSlide
    /\ reverted = NoRevert
    /\ penetrates = FALSE
    /\ frames \in SlideFrames

NextSlide ==
    \E mx \in {-1, 0, 1}, my \in {-1, 0, 1} : MoveTick(mx, my, FALSE)

SpecSlide == InitSlide /\ [][NextSlide]_vars

----------------------------------------------------------------------------
\* Claims on movement and building

is_structure(e) == e.kind \in {"wall", "door"}

\* C1 (as claimed): at the end of MovementSystem.update the player's hitbox
\* overlaps the collision rectangle of no solid obstacle, for every sequence
\* of inputs, builds and ticks, including moves at the world boundary.
C1_NoInterpenetration == ~penetrates

\* C2: walls and doors are created non-solid, and a wall that is solid (a
\* door that is blocking) has had its owner's rectangle off its footprint at
\* the end of some tick after its placement.
C2_SolidOnlyAfterVacated ==
    \A i \in 1..Len(ents) :
        (is_structure(ents[i]) /\ ents[i].solid) => i \in vacated

C2_Witness ==
    \E i \in 1..Len(ents) :
        ents[i].kind = "door" /\ ents[i].solid /\ i \in vacated

\* C3: a wall built under the builder is solid exactly from the first tick
\* that ends with the builder's rectangle off the wall's footprint: not
\* solid before, solid in that tick, and never non-solid again.  (vacated
\* records the walls that have seen such a tick; it only grows, so a wall
\* that is solid exactly when it is in vacated never turns non-solid again.)
C3_SolidExactlyOnce ==
    \A i \in 1..Len(ents) :
        ents[i].kind = "wall" => (ents[i].solid <=> i \in vacated)

C3_Witness ==
    \E i \in 1..Len(ents) :
        ents[i].kind = "wall" /\ ents[i].solid /\ ticks >= 2

\* C4 (as claimed): after a diagonal move that a single obstacle blocks in x
\* only, x is the pre-tick x and y has advanced in the direction of the input.
C4_SlideAdvancesY ==
    slideCase # NoSlide =>
        /\ pos[1] = slideCase.pre[1]
        /\ (pos[2] - slideCase.pre[2]) * slideCase.move_y > 0

\* C4 (amended): ... and y has advanced in the direction of the input, unless
\* the player stood on the world bound it moves towards, where the clamp to
\* the world bounds keeps its y.
C4_SlideAdvancesYOrClamped ==
    slideCase # NoSlide =>
        /\ pos[1] = slideCase.pre[1]
        /\ \/ (pos[2] - slideCase.pre[2]) * slideCase.move_y > 0
           \/ /\ pos[2] = slideCase.pre[2]
              /\ slideCase.pre[2] =
                   (IF slideCase.move_y > 0
                    THEN WORLD_HEIGHT - PLAYER_SIZE \div 2
                    ELSE PLAYER_SIZE \div 2)

C4_Witness ==
    /\ slideCase # NoSlide
    /\ pos[1] = slideCase.pre[1]
    /\ pos[2] # slideCase.pre[2]

\* C24: when the player's final hitbox (after the axis-separated resolution
\* and the edge-release nudge) overlaps one of the nearby obstacles, the
\* player's position after the tick is its pre-tick position on both axes.
C24_RevertsToPreTick ==
    reverted # NoRevert => pos = reverted.pre

C24_Witness ==
    /\ reverted # NoRevert
    /\ reverted.final # reverted.pre
    /\ pos = reverted.pre

----------------------------------------------------------------------------
\* EnemyAISystem
\*
\* Directions are unit vectors in hundredths; a step is cut to whole pixels
\* towards zero.  A heading along an axis is exact.

\* integer part of the square root, by bisection on [lo, hi)
RECURSIVE isqrt_between(_, _, _)
isqrt_between(n, lo, hi) ==
    IF hi - lo <= 1 THEN lo
    ELSE LET mid == (lo + hi) \div 2
         IN IF mid * mid <= n THEN isqrt_between(n, mid, hi)
            ELSE isqrt_between(n, lo, mid)

isqrt(n) == isqrt_between(n, 0, 46341)

\* a / b cut towards zero (b > 0)
quot(a, b) == IF a >= 0 THEN a \div b ELSE -((-a) \div b)

\* (dx / distance, dy / distance), in hundredths; d is 100 * distance
scaled(dx, dy, d) ==
    IF d = 0 THEN <<0, 0>> ELSE << quot(10000 * dx, d), quot(10000 * dy, d) >>

normalize(dx, dy) == scaled(dx, dy, isqrt(10000 * (dx * dx + dy * dy)))

enemy_rect_at(x, y) == << x, y, ENEMY_SIZE, ENEMY_SIZE >>

enemy_rect(e) == enemy_rect_at(e.x, e.y)

get_entity_center(e) ==
    IF e.kind = "wall" THEN << e.x, e.y >>
    ELSE << e.x + e.w \div 2, e.y + e.w \div 2 >>

\* a rectangle in half pixels
doubled(r) == << 2 * r[1], 2 * r[2], 2 * r[3], 2 * r[4] >>

\* the blend of the heading and the push away from the obstacle, renormalised;
\* avoid_dist is in hundredths of a pixel
blend(dir, avoid, avoid_dist, avoid_strength) ==
    LET steer_x == quot(dir[1] * (100 - avoid_strength) + avoid[1] * avoid_strength, 100)
        steer_y == quot(dir[2] * (100 - avoid_strength) + avoid[2] * avoid_strength, 100)
    IN IF avoid_dist = 0 THEN dir
       ELSE scaled(steer_x, steer_y, 100 * isqrt(steer_x * steer_x + steer_y * steer_y))

\* "Steer around obstacle"
steer(x, y, dir, blocking, c, avoid_dist) ==
    blend(dir, scaled(x - c[1], y - c[2], avoid_dist), avoid_dist,
          Max2(0, 100 - quot(avoid_dist, blocking.w + ENEMY_SIZE)))

\* the first obstacle that covers the look-ahead point (0: none)
look_ahead(x, y, dir, obstacles) ==
    LET \* the look-ahead square, in half pixels (size / 2 is not whole)
        check_rect == << 2 * x + (dir[1] * ENEMY_PATHFINDING_RANGE) \div 50 - ENEMY_SIZE,
                         2 * y + (dir[2] * ENEMY_PATHFINDING_RANGE) \div 50 - ENEMY_SIZE,
                         2 * ENEMY_SIZE, 2 * ENEMY_SIZE >>
        hits == { k \in 1..Len(obstacles) :
                    check_collision(check_rect, doubled(get_entity_rect(obstacles[k]))) }
    IN IF hits = {} THEN 0 ELSE CHOOSE k \in hits : \A j \in hits : k <= j

steer_around(x, y, dir, blocking, c) ==
    steer(x, y, dir, blocking, c,
          isqrt(10000 * ((x - c[1]) * (x - c[1]) + (y - c[2]) * (y - c[2]))))

heading(x, y, dir, obstacles, k) ==
    IF dir = <<0, 0>> \/ k = 0 THEN dir
    ELSE steer_around(x, y, dir, obstacles[k], get_entity_center(obstacles[k]))

head_for(x, y, dir, obstacles) ==
    heading(x, y, dir, obstacles, look_ahead(x, y, dir, obstacles))

\* EnemyAISystem._find_path: the heading towards the target, bent away from
\* the first nearby obstacle that covers the look-ahead point.
find_path(x, y, target, obstacles) ==
    head_for(x, y, normalize(target[1] - x, target[2] - y), obstacles)

\* SpatialPartition.query('enemies', rect): the enemies whose rectangle, as
\* SpatialPartitionSystem indexed it at the start of the tick, meets rect.
query_enemies(indexed, rect) ==
    { j \in 1..Len(indexed) :
        indexed[j].present /\ check_collision(rect, enemy_rect(indexed[j])) }

\* the end of _update_enemy: the position after the blocked axes are held
\* back, or after the perpendicular probe when both are blocked
resolve_enemy(e, rects, new_x, new_y, test_new_x, test_new_y) ==
    LET can_move_x == ~\E r \in rects :
                          /\ check_collision(enemy_rect_at(new_x, new_y), r)
                          /\ check_collision(enemy_rect_at(new_x, e.y), r)
        can_move_y == ~\E r \in rects :
                          /\ check_collision(enemy_rect_at(new_x, new_y), r)
                          /\ check_collision(enemy_rect_at(e.x, new_y), r)
        can_move_perp == ~\E r \in rects :
                             check_collision(enemy_rect_at(test_new_x, test_new_y), r)
    IN IF ~can_move_x /\ ~can_move_y
       THEN IF can_move_perp THEN << test_new_x, test_new_y >> ELSE << e.x, e.y >>
       ELSE << IF can_move_x THEN new_x ELSE e.x, IF can_move_y THEN new_y ELSE e.y >>

step_enemy(e, rects, dir, speed_per_frame) ==
    resolve_enemy(e, rects,
                  e.x + quot(dir[1] * speed_per_frame, 100),
                  e.y + quot(dir[2] * speed_per_frame, 100),
                  e.x + quot(-dir[2] * speed_per_frame, 100),
                  e.y + quot(dir[1] * speed_per_frame, 100))

move_enemy(es, e, obstacles, nearby_enemies, target, dt) ==
    step_enemy(e,
               { get_entity_rect(obstacles[k]) : k \in 1..Len(obstacles) }
                   \cup { enemy_rect(es[j]) : j \in nearby_enemies },
               find_path(e.x, e.y, target, obstacles),
               ENEMY_SPEED * dt)

entity_rect(e) ==
    << e.x - ENEMY_PATHFINDING_RANGE, e.y - ENEMY_PATHFINDING_RANGE,
       ENEMY_SIZE + ENEMY_PATHFINDING_RANGE * 2,
       ENEMY_SIZE + ENEMY_PATHFINDING_RANGE * 2 >>

\* EnemyAISystem._update_enemy for enemy i: its new <<x, y>>.  es holds the
\* enemies as moved so far in this tick, indexed the enemies as indexed.
update_enemy(es, indexed, obs_ents, i, target, dt) ==
    move_enemy(es, es[i],
               query_obstacles(obs_ents, entity_rect(es[i]), 1),
               query_enemies(indexed, entity_rect(es[i])) \ { i },
               target, dt)

place_enemy(es, i, p) == [es EXCEPT ![i].x = p[1], ![i].y = p[2]]

\* EnemyAISystem.update: every enemy in turn, from enemy i on, heads for the
\* centre of the first player.
RECURSIVE enemy_ai_update(_, _, _, _, _, _)
enemy_ai_update(es, indexed, obs_ents, i, target, dt) ==
    IF i > Len(es) THEN es
    ELSE IF ~es[i].present
    THEN enemy_ai_update(es, indexed, obs_ents, i + 1, target, dt)
    ELSE enemy_ai_update(
             place_enemy(es, i, update_enemy(es, indexed, obs_ents, i, target, dt)),
             indexed, obs_ents, i + 1, target, dt)

----------------------------------------------------------------------------
\* ProjectileSystem and CollisionSystem

proj_rect(p) == << p.x, p.y, PROJECTILE_SIZE, PROJECTILE_SIZE >>

\* ProjectileSystem.update: the projectiles advanced by their velocity
projectile_update(ps) ==
    [ i \in 1..Len(ps) |->
        IF ps[i].present
        THEN [ps[i] EXCEPT !.x = ps[i].x + ps[i].dx, !.y = ps[i].y + ps[i].dy]
        ELSE ps[i] ]

\* "Remove if off-world"
off_world(p) ==
    \/ p.x < -PROJECTILE_SIZE
    \/ p.x > WORLD_WIDTH + PROJECTILE_SIZE
    \/ p.y < -PROJECTILE_SIZE
    \/ p.y > WORLD_HEIGHT + PROJECTILE_SIZE

\* The height test of a projectile hit: the shooter is the first player whose
\* player_id is the projectile's owner_id; without one the hit is allowed.
hit_allowed(pls, p, e) ==
    LET shooters == { k \in 1..Len(pls) : pls[k].player_id = p.owner_id }
    IN IF p.owner_id # 0 /\ shooters # {}
       THEN pls[CHOOSE k \in shooters : \A j \in shooters : k <= j].level - e.level = 1
       ELSE TRUE

\* "Projectile vs Enemy": the <<projectile, enemy>> pairs marked for removal.
\* The candidates of a projectile are the enemies whose rectangle, as indexed
\* at the start of the tick (indexed), meets the projectile's rectangle.
hit_pairs(pls, es, ps, indexed) ==
    { pe \in (1..Len(ps)) \X (1..Len(es)) :
        /\ ps[pe[1]].present
        /\ pe[2] \in query_enemies(indexed, proj_rect(ps[pe[1]]))
        /\ check_collision(proj_rect(ps[pe[1]]), enemy_rect(es[pe[2]]))
        /\ hit_allowed(pls, ps[pe[1]], es[pe[2]]) }

\* "Projectile vs Obstacles": the projectiles not yet marked that the first
\* candidate obstacle stops.
stopped(ps, obs_ents, projectiles_to_remove) ==
    { i \in 1..Len(ps) :
        /\ ps[i].present
        /\ i \notin projectiles_to_remove
        /\ Len(query_obstacles(obs_ents, proj_rect(ps[i]), 1)) > 0
        /\ check_collision(proj_rect(ps[i]),
               get_entity_rect(query_obstacles(obs_ents, proj_rect(ps[i]), 1)[1])) }

\* "Enemy vs Player": some player's hitbox meets a candidate enemy that is not
\* marked and that the player is not above.
enemy_hits_player(pls, es, indexed, enemies_to_remove) ==
    \E k \in 1..Len(pls) :
        \E j \in query_enemies(indexed, hitbox(pls[k].x, pls[k].y)) :
            /\ j \notin enemies_to_remove
            /\ check_collision(hitbox(pls[k].x, pls[k].y), enemy_rect(es[j]))
            /\ ~(pls[k].level > es[j].level)

\* the end of CollisionSystem.update: on game over it returns before the
\* marked entities are handed to World.remove_entity
collision_result(hits, game_over, projectiles_to_remove) ==
    [ hit_pairs |-> hits,
      game_over |-> game_over,
      enemies_to_remove |-> IF game_over THEN {} ELSE { pe[2] : pe \in hits },
      projectiles_to_remove |-> IF game_over THEN {} ELSE projectiles_to_remove ]

collision_resolve(pls, es, ps, indexed, obs_ents, hits) ==
    collision_result(hits,
        enemy_hits_player(pls, es, indexed, { pe[2] : pe \in hits }),
        { pe[1] : pe \in hits } \cup stopped(ps, obs_ents, { pe[1] : pe \in hits }))

\* CollisionSystem.update on the players, enemies and projectiles as the
\* earlier systems of the tick left them, with the spatial index of the
\* start of the tick.
collision_update(pls, es, ps, indexed, obs_ents) ==
    collision_resolve(pls, es, ps, indexed, obs_ents, hit_pairs(pls, es, ps, indexed))

\* MovementSystem.update: every player entity moves by the keys held
place_player(p, at) == [p EXCEPT !.x = at[1], !.y = at[2]]

move_players(pls, obs_ents, mx, my, dt) ==
    [ k \in 1..Len(pls) |->
        place_player(pls[k],
            move_player(obs_ents, <<pls[k].x, pls[k].y>>, mx, my, dt).pos) ]

\* the end of World.update: the marked entities leave the World
clean_up(pls, es, ps, c) ==
    [ players |-> [pls EXCEPT ![1].coins = @ + Cardinality(c.hit_pairs)],
      enemies |-> [ j \in 1..Len(es) |->
                      IF j \in c.enemies_to_remove
                      THEN [es[j] EXCEPT !.present = FALSE] ELSE es[j] ],
      projectiles |-> [ i \in 1..Len(ps) |->
                          IF i \in c.projectiles_to_remove
                             \/ (ps[i].present /\ off_world(ps[i]))
                          THEN [ps[i] EXCEPT !.present = FALSE] ELSE ps[i] ],
      game_over |-> c.game_over,
      hit_pairs |-> c.hit_pairs,
      seen |-> [players |-> pls, enemies |-> es, projectiles |-> ps] ]

after_systems(pls, es, ps, indexed, obs_ents) ==
    clean_up(pls, es, ps, collision_update(pls, es, ps, indexed, obs_ents))

after_movement(pls, es, ps, obs_ents, dt) ==
    after_systems(pls,
                  enemy_ai_update(es, es, obs_ents, 1,
                                  player_center(<<pls[1].x, pls[1].y>>), dt),
                  projectile_update(ps), es, obs_ents)

\* One World.update with the keys (mx, my) held: InputSystem,
\* SpatialPartitionSystem, MovementSystem, EnemyAISystem, ProjectileSystem,
\* CollisionSystem and the removal of the marked entities.
world_update(pls, es, ps, obs_ents, mx, my, dt) ==
    after_movement(move_players(pls, obs_ents, mx, my, dt), es, ps, obs_ents, dt)

----------------------------------------------------------------------------
\* SpecCombat: players, enemies that walk towards the first player, and a
\* projectile in flight on a patch of open ground with one rock.  The
\* enemies start on the horizontal line through the first player's centre
\* and the players walk along it (A, D or no key), so every heading lies
\* along an axis and every step is a whole number of pixels.

create_player(x, y, player_id, level) ==
    [player_id |-> player_id, x |-> x, y |-> y, level |-> level, coins |-> 0]

create_enemy(x, y, level, present) ==
    [x |-> x, y |-> y, level |-> level, present |-> present]

create_projectile(x, y, dx, dy, owner_id) ==
    [x |-> x, y |-> y, dx |-> dx, dy |-> dy, owner_id |-> owner_id, present |-> TRUE]

\* dt = 2/60 s: whole steps for players (5) and enemies (4)
CombatFrames == { 2 }

CombatRocks == << create_rock(190, 140, GRID_SIZE) >>

\* single player: one player entity (player_id 1) and my_player_id = 2;
\* host: the local player (player_id 1), the peer's entity (player_id 2)
CombatModes == { "single", "host" }

StartPlayers(mode, level) ==
    IF mode = "single" THEN << create_player(100, 100, 1, level) >>
    ELSE << create_player(100, 100, 1, level), create_player(100, 400, 2, 0) >>

\* owner_id of the projectiles in flight: my_player_id, or the peer's id
Owners(mode) == IF mode = "single" THEN { 2 } ELSE { 1, 2 }

FirstEnemyStarts == { <<129, 115>>, <<215, 115>> }
SecondEnemyStart == <<240, 115>>
ProjectileStarts == { <<194, 120>>, <<200, 120>> }
ProjectileVelocities == { <<PROJECTILE_SPEED, 0>>, <<0, PROJECTILE_SPEED>> }

InitCombat ==
    /\ LaterIdle
    /\ pos = <<0, 0>>
    /\ wood = 0
    /\ ents = CombatRocks
    /\ last_interact_pressed = FALSE
    /\ ticks = 0
    /\ vacated = {}
    /\ slideCase = NoSlide
    /\ reverted = NoRevert
    /\ penetrates = FALSE
    /\ frames \in CombatFrames
    /\ \E mode \in CombatModes, level \in 0..2 :
          /\ players = StartPlayers(mode, level)
          /\ \E s \in ProjectileStarts, v \in ProjectileVelocities, o \in Owners(mode) :
                projectiles = << create_projectile(s[1], s[2], v[1], v[2], o) >>
    /\ \E s \in FirstEnemyStarts, l1 \in 0..1, second \in BOOLEAN :
          enemies = << create_enemy(s[1], s[2], l1, TRUE),
                       create_enemy(SecondEnemyStart[1], SecondEnemyStart[2], 0, second) >>
    /\ game_active = TRUE
    /\ lethal = {}
    /\ snap = NoSnap
    /\ HarvestIdle
    /\ DirectorIdle

\* One World.update of a running game with the keys (mx, 0) held.  The
\* world holds no door, stairs or wall and its trees stand out of reach of
\* this patch, untouched, so InteractionSystem, StairsSystem, HarvestSystem
\* and WallSystem find nothing to do.
CombatTick(mx) ==
    /\ players # << >>
    /\ game_active
    /\ ticks < MaxCombatTicks
    /\ \E w \in { world_update(players, enemies, projectiles, ents, mx, 0, frames) } :
          /\ players' = w.players
          /\ enemies' = w.enemies
          /\ projectiles' = w.projectiles
          /\ game_active' = ~w.game_over
          /\ lethal' = w.hit_pairs
          /\ snap' = w.seen
    /\ ticks' = ticks + 1
    /\ UNCHANGED <<ents, frames>>
    /\ UNCHANGED moveVars
    /\ UNCHANGED harvestVars
    /\ UNCHANGED directorVars
    /\ UNCHANGED netVars
    /\ UNCHANGED laterVars

NextCombat == \E mx \in {-1, 0, 1} : CombatTick(mx)

SpecCombat == InitCombat /\ [][NextCombat]_vars

----------------------------------------------------------------------------
\* Claims on combat

\* the enemies marked as killed by the last CollisionSystem.update
killed == { pe[2] : pe \in lethal }

\* C5 (as claimed): when CollisionSystem has run, the game has ended exactly
\* if the hitbox of some player overlaps the rectangle of an enemy not killed
\* in this tick whose level the player's level does not exceed.
C5_HeightGate ==
    ticks > 0 =>
        ( ~game_active <=>
            \E k \in 1..Len(snap.players), j \in 1..Len(snap.enemies) :
                /\ snap.enemies[j].present
                /\ j \notin killed
                /\ check_collision(hitbox(snap.players[k].x, snap.players[k].y),
                                   enemy_rect(snap.enemies[j]))
                /\ ~(snap.players[k].level > snap.enemies[j].level) )

\* the shooter of a projectile is present and one level above the enemy
C6_OneLevelAbove(p, e) ==
    \E k \in 1..Len(snap.players) :
        /\ snap.players[k].player_id = p.owner_id
        /\ snap.players[k].level - e.level = 1

C6_Resolved(p) ==
    \E k \in 1..Len(snap.players) : snap.players[k].player_id = p.owner_id

\* C6 (as claimed): for every projectile and enemy whose rectangles overlap
\* when CollisionSystem runs: if the shooter is resolved and one level above
\* the enemy, or is not resolved, the update removes both from the World;
\* otherwise the pair is not marked for removal.
C6_LethalResolution ==
    ticks > 0 =>
        \A i \in 1..Len(snap.projectiles), j \in 1..Len(snap.enemies) :
            ( /\ snap.projectiles[i].present
              /\ snap.enemies[j].present
              /\ check_collision(proj_rect(snap.projectiles[i]),
                                 enemy_rect(snap.enemies[j])) )
            => IF ~C6_Resolved(snap.projectiles[i])
                  \/ C6_OneLevelAbove(snap.projectiles[i], snap.enemies[j])
               THEN ~enemies[j].present /\ ~projectiles[i].present
               ELSE <<i, j>> \notin lethal

\* C39 (as claimed): in one CollisionSystem update each projectile kills at
\* most one enemy, also when its rectangle overlaps several: no projectile is
\* marked with two enemies, and the coins awarded are one for each consumed
\* projectile.
C39_OneKillPerProjectile ==
    ticks > 0 =>
        /\ \A pe1 \in lethal, pe2 \in lethal : pe1[1] = pe2[1] => pe1[2] = pe2[2]
        /\ players[1].coins - snap.players[1].coins
              = Cardinality({ pe[1] : pe \in lethal })

\* C38 (as claimed): in a multiplayer game the entity of the remote player
\* (player id 2 here) changes position only when an inbound player_update
\* naming it is applied; World.update, in which no message is applied, moves
\* the locally controlled player only.
C38_RemoteUnmovedByKeys ==
    [][ \A k \in 1..Len(players) :
            players[k].player_id # 1 =>
                (players'[k].x = players[k].x /\ players'[k].y = players[k].y) ]_vars

\* C33 (as claimed): CollisionSystem acts on the World as the earlier systems
\* of the tick left it: every projectile and enemy whose current rectangles
\* overlap when it runs are arbitrated in this tick (the hit is marked when
\* the height gate allows it), and so is every player and enemy (the game
\* ends when the player is not above the enemy).
C33_CurrentOverlapsArbitrated ==
    ticks > 0 =>
        /\ \A i \in 1..Len(snap.projectiles), j \in 1..Len(snap.enemies) :
              ( /\ snap.projectiles[i].present
                /\ snap.enemies[j].present
                /\ check_collision(proj_rect(snap.projectiles[i]),
                                   enemy_rect(snap.enemies[j]))
                /\ hit_allowed(snap.players, snap.projectiles[i], snap.enemies[j]) )
              => <<i, j>> \in lethal
        /\ \A k \in 1..Len(snap.players), j \in 1..Len(snap.enemies) :
              ( /\ snap.enemies[j].present
                /\ j \notin killed
                /\ check_collision(hitbox(snap.players[k].x, snap.players[k].y),
                                   enemy_rect(snap.enemies[j]))
                /\ ~(snap.players[k].level > snap.enemies[j].level) )
              => ~game_active

----------------------------------------------------------------------------
\* HarvestSystem
\*
\* chop_progress is kept in frames: dt / TREE_CHOP_TIME summed over the
\* updates reaches 1.0 when the frames sum to TREE_CHOP_FRAMES.
\* current_chopper is None or the id of the first player entity, the only
\* value HarvestSystem ever stores in it ("None", "player").

create_tree(x, y) ==
    [kind |-> "tree", x |-> x, y |-> y, w |-> TREE_SIZE, is_chopped |-> FALSE,
     chop_progress |-> 0, current_chopper |-> "None", present |-> TRUE]

\* get_entities_with(TreeComponent, ...): the trees in the World
tree_entities(ts) == { i \in 1..Len(ts) : ts[i].present }

\* "Find nearby tree": with harvest pressed, the unchopped tree nearest to the
\* player's centre c within HARVEST_RANGE, the first in iteration order among
\* equally near ones (0: none).
nearby_tree(ts, c, harvest_pressed) ==
    LET d(i) == dist2(c, <<ts[i].x, ts[i].y>>)
        near == { i \in tree_entities(ts) :
                    ~ts[i].is_chopped /\ d(i) <= HARVEST_RANGE * HARVEST_RANGE }
    IN IF ~harvest_pressed \/ near = {} THEN 0
       ELSE CHOOSE i \in near : \A j \in near : d(i) < d(j) \/ (d(i) = d(j) /\ i <= j)

\* the body of the loop "Update all trees": the nearby tree gains dt of
\* progress and is chopped once the progress is complete
chop(ts, nearby_tree_id, dt) ==
    [ i \in 1..Len(ts) |->
        IF i = nearby_tree_id
        THEN [ts[i] EXCEPT !.current_chopper = "player",
                           !.chop_progress = @ + dt,
                           !.is_chopped = (ts[i].chop_progress + dt >= TREE_CHOP_FRAMES)]
        ELSE ts[i] ]

\* The "else" of the loop "Update all trees" belongs to the for statement: it
\* runs once, when the loop has ended, on the tree the loop visited last.
reset_after_loop(ts, last) ==
    IF last # 0 /\ ts[last].current_chopper = "player"
    THEN [ts EXCEPT ![last].current_chopper = "None", ![last].chop_progress = 0]
    ELSE ts

last_tree(ts) ==
    IF tree_entities(ts) = {} THEN 0
    ELSE CHOOSE i \in tree_entities(ts) : \A j \in tree_entities(ts) : j <= i

harvest_trees(ts, nearby_tree_id, dt) ==
    [ trees |-> reset_after_loop(chop(ts, nearby_tree_id, dt), last_tree(ts)),
      wood |-> IF nearby_tree_id # 0
                  /\ ts[nearby_tree_id].chop_progress + dt >= TREE_CHOP_FRAMES
               THEN 1 ELSE 0,
      nearby_tree_id |-> nearby_tree_id,
      \* without a tree entity the "else" reads a variable that was never bound
      raises |-> tree_entities(ts) = {} ]

\* HarvestSystem.update for the first player at position p
harvest_update(ts, p, harvest_pressed, dt) ==
    harvest_trees(ts, nearby_tree(ts, player_center(p), harvest_pressed), dt)

\* Variant: the chopped trees stay in the World.
remove_chopped_never(p, h) ==
    [ pos |-> p, trees |-> h.trees, wood |-> h.wood,
      nearby_tree_id |-> h.nearby_tree_id, raises |-> h.raises ]

\* the end of World.update: the chopped trees leave the World
remove_chopped(p, h) ==
    [ pos |-> p,
      trees |-> [ i \in 1..Len(h.trees) |->
                    IF h.trees[i].is_chopped
                    THEN [h.trees[i] EXCEPT !.present = FALSE] ELSE h.trees[i] ],
      wood |-> h.wood,
      nearby_tree_id |-> h.nearby_tree_id,
      raises |-> h.raises ]

harvest_at(ts, p, harvest_pressed, dt) ==
    remove_chopped(p, harvest_update(ts, p, harvest_pressed, dt))

\* the trees that SpatialPartitionSystem indexes as obstacles
tree_obstacles(ts) == SelectSeq(ts, LAMBDA t : t.present)

\* One World.update of a world of trees with the keys (mx, my) and SPACE held
\* or not: MovementSystem, then HarvestSystem, then the removals.
harvest_world_update(ts, p, mx, my, harvest_pressed, dt) ==
    harvest_at(ts, move_player(tree_obstacles(ts), p, mx, my, dt).pos,
               harvest_pressed, dt)

----------------------------------------------------------------------------
\* SpecHarvest: the player walks along a row below two trees and holds or
\* releases SPACE.  From the start position both trees are in range and the
\* first is nearer; one step to the left only the second is in range; one
\* step to the right neither is.

\* dt of the updates: 0.3 s, 0.5 s, and a stalled frame of 1.5 s
HarvestFrames == { 18, 30, 90 }

HarvestStart == <<1000, 1000>>

StartTrees == << create_tree(1025, 1055), create_tree(975, 1055) >>

InitHarvest ==
    /\ LaterIdle
    /\ CombatIdle
    /\ DirectorIdle
    /\ pos = HarvestStart
    /\ wood = 0
    /\ ents = << >>
    /\ last_interact_pressed = FALSE
    /\ ticks = 0
    /\ vacated = {}
    /\ slideCase = NoSlide
    /\ reverted = NoRevert
    /\ penetrates = FALSE
    /\ frames \in HarvestFrames
    /\ trees = StartTrees
    /\ harvested = 0

\* One World.update with the keys (mx, 0) held and SPACE held or not.  The
\* world holds no enemy, projectile, door, stairs or wall.  An update in
\* which HarvestSystem raises ends the program.
HarvestTick(mx, space) ==
    /\ trees # << >>
    /\ ticks < MaxHarvestTicks
    /\ \E w \in { harvest_world_update(trees, pos, mx, 0, space, frames) } :
          /\ ~w.raises
          /\ pos' = w.pos
          /\ trees' = w.trees
          /\ wood' = wood + w.wood
          /\ harvested' = w.nearby_tree_id
    /\ last_interact_pressed' = space
    /\ ticks' = ticks + 1
    /\ UNCHANGED <<ents, vacated, slideCase, reverted, penetrates, frames>>
    /\ UNCHANGED combatVars
    /\ UNCHANGED directorVars
    /\ UNCHANGED netVars
    /\ UNCHANGED laterVars

NextHarvest == \E mx \in {-1, 0, 1}, space \in BOOLEAN : HarvestTick(mx, space)

SpecHarvest == InitHarvest /\ [][NextHarvest]_vars

----------------------------------------------------------------------------
\* Claims on harvesting

\* C7 (as claimed): after every HarvestSystem.update, every tree that the
\* player was not harvesting in that update (harvest not pressed, the tree
\* out of range, or another tree nearer) has chop_progress zero, whatever
\* its place in the iteration order.
C7_ProgressResets ==
    ticks > 0 =>
        \A i \in 1..Len(trees) :
            (trees[i].present /\ i # harvested) => trees[i].chop_progress = 0

chopped_trees(ts) == { i \in 1..Len(ts) : ts[i].is_chopped }

\* C36 (as claimed): in every reachable state of a World with a player,
\* HarvestSystem.update completes without raising, whether harvest is
\* pressed or not and however many tree entities the World holds, none
\* included.
C36_HarvestNeverRaises ==
    \A space \in BOOLEAN : ~harvest_update(trees, pos, space, frames).raises

\* C25: each tree grants wood exactly once.  In the tick in which the
\* progress of the tree being chopped is complete the player's wood grows by
\* exactly 1, the tree is marked chopped and has left the World when the tick
\* ends; wood grows in no other tick; a chopped tree stays chopped, stays out
\* of the World and gains no progress; so the wood gained is the number of
\* chopped trees.
C25_WoodExactlyOnce ==
    /\ [](wood = Cardinality(chopped_trees(trees)))
    /\ [](\A i \in 1..Len(trees) : trees[i].is_chopped <=> ~trees[i].present)
    /\ [][ /\ \A i \in 1..Len(trees) :
               /\ (~trees[i].is_chopped /\ trees'[i].is_chopped)
                     <=> (harvested' = i
                          /\ trees[i].chop_progress + frames >= TREE_CHOP_FRAMES)
               /\ (~trees[i].is_chopped /\ trees'[i].is_chopped)
                     => (wood' = wood + 1 /\ ~trees'[i].present)
               /\ trees[i].is_chopped
                     => (/\ trees'[i].is_chopped
                         /\ ~trees'[i].present
                         /\ trees'[i].chop_progress <= trees[i].chop_progress)
           /\ wood' # wood
                 => (/\ wood' = wood + 1
                     /\ Cardinality(chopped_trees(trees') \ chopped_trees(trees)) = 1)
         ]_vars

C25_Witness ==
    /\ wood = 1
    /\ Cardinality(chopped_trees(trees)) = 1
    /\ harvested # 0
    /\ harvested \notin chopped_trees(trees)
    /\ ticks = MaxHarvestTicks

----------------------------------------------------------------------------
\* The day/night clock and the encounter director (GameWindow.update)
\*
\* Times are in frames of 1/FPS s.  The rates of the source that are not
\* whole (ENEMY_SPAWN_ACCELERATION = 0.5, NIGHT_SPAWN_MULTIPLIER_BASE = 1.5,
\* NIGHT_SPAWN_MULTIPLIER_PER_DAY = 0.3) enter scaled to whole numbers.

\* Variant: the day is counted at nightfall.
update_day_night_cycle_at_dusk(night, cycle, day) ==
    IF ~night
    THEN IF cycle >= DAY_LENGTH * FPS
         THEN [is_night |-> TRUE, cycle_time |-> 0, day_count |-> day + 1]
         ELSE [is_night |-> FALSE, cycle_time |-> cycle, day_count |-> day]
    ELSE IF cycle >= NIGHT_LENGTH * FPS
         THEN [is_night |-> FALSE, cycle_time |-> 0, day_count |-> day]
         ELSE [is_night |-> TRUE, cycle_time |-> cycle, day_count |-> day]

\* GameWindow.update_day_night_cycle, after cycle_time += dt
update_day_night_cycle(night, cycle, day) ==
    IF ~night
    THEN IF cycle >= DAY_LENGTH * FPS
         THEN [is_night |-> TRUE, cycle_time |-> 0, day_count |-> day]
         ELSE [is_night |-> FALSE, cycle_time |-> cycle, day_count |-> day]
    ELSE IF cycle >= NIGHT_LENGTH * FPS
         THEN [is_night |-> FALSE, cycle_time |-> 0, day_count |-> day + 1]
         ELSE [is_night |-> TRUE, cycle_time |-> cycle, day_count |-> day]

\* ten times night_spawn_multiplier
night_spawn_multiplier(day) == 15 + (day - 1) * 3

night_max_enemies(day) ==
    Min2(NIGHT_MAX_ENEMIES_BASE + (day - 1) * NIGHT_MAX_ENEMIES_PER_DAY, MAX_ENEMIES)

\* enemy_spawn_timer >= spawn_interval, where
\*   spawn_interval = max(MIN_ENEMY_SPAWN_RATE, INITIAL_ENEMY_SPAWN_RATE
\*                          - cycle_time * 0.5 * multiplier) / FPS / multiplier
\* with both sides multiplied by 20 * FPS * multiplier (timer and cycle in
\* frames, the multiplier in tenths)
spawn_due(timer, cycle, day) ==
    2 * FPS * timer * night_spawn_multiplier(day)
        >= Max2(20 * FPS * MIN_ENEMY_SPAWN_RATE,
                20 * FPS * INITIAL_ENEMY_SPAWN_RATE - cycle * night_spawn_multiplier(day))

\* Variant: the director does not look at the phase.
director_any_phase(r, conn, night, cycle, day, timer, count, dt) ==
    IF r = "single" \/ (r = "host" /\ conn)
    THEN IF count < night_max_enemies(day) /\ spawn_due(timer + dt, cycle, day)
         THEN [enemy_spawn_timer |-> 0, enemy_count |-> count + 1]
         ELSE [enemy_spawn_timer |-> timer + dt, enemy_count |-> count]
    ELSE [enemy_spawn_timer |-> timer, enemy_count |-> count]

\* "Enemy spawning (only at night)": the timer and the enemy count after it
director(r, conn, night, cycle, day, timer, count, dt) ==
    IF night /\ (r = "single" \/ (r = "host" /\ conn))
    THEN IF count < night_max_enemies(day) /\ spawn_due(timer + dt, cycle, day)
         THEN [enemy_spawn_timer |-> 0, enemy_count |-> count + 1]
         ELSE [enemy_spawn_timer |-> timer + dt, enemy_count |-> count]
    ELSE [enemy_spawn_timer |-> timer, enemy_count |-> count]

\* "Handle networking": a client creates one enemy for every enemy_spawn
\* message drained from the reader thread's list
apply_enemy_spawns(r, conn, count, enemy_spawns) ==
    IF r = "client" /\ conn THEN count + enemy_spawns ELSE count

run_director(r, conn, clock, timer, count, dt) ==
    [ clock |-> clock,
      spawn |-> director(r, conn, clock.is_night, clock.cycle_time, clock.day_count,
                         timer, count, dt) ]

\* GameWindow.update of a running game: the clock, the inbound messages
\* (enemy_spawns of them announce an enemy), World.update (in which combat
\* removes `kills` enemies), the director.
game_update(r, conn, night, cycle, day, timer, count, enemy_spawns, kills, dt) ==
    run_director(r, conn, update_day_night_cycle(night, cycle + dt, day), timer,
                 apply_enemy_spawns(r, conn, count, enemy_spawns) - kills, dt)

----------------------------------------------------------------------------
\* SpecDirector: a game from its start, in each of the three roles, with
\* updates of half a second.  The peer of a client announces at most one
\* enemy per update; combat removes at most one enemy per update.

DirectorFrames == { 30 }

Roles == { "single", "host", "client" }

InitDirector ==
    /\ LaterIdle
    /\ CombatIdle
    /\ HarvestIdle
    /\ NetIdle
    /\ pos = <<0, 0>>
    /\ wood = 0
    /\ ents = << >>
    /\ last_interact_pressed = FALSE
    /\ ticks = 0
    /\ vacated = {}
    /\ slideCase = NoSlide
    /\ reverted = NoRevert
    /\ penetrates = FALSE
    /\ frames \in DirectorFrames
    /\ role \in Roles
    \* a client's window opens connected; a host waits for its client
    /\ connected = (role = "client")
    /\ is_night = FALSE
    /\ cycle_time = 0
    /\ day_count = 1
    /\ enemy_spawn_timer = 0
    /\ enemy_count = 0

DirectorTick(enemy_spawns, kills) ==
    /\ frames \in DirectorFrames
    /\ ticks < MaxDirectorTicks
    /\ enemy_spawns = 0 \/ (role = "client" /\ connected
                              /\ enemy_count < MaxClientEnemies)
    /\ kills <= apply_enemy_spawns(role, connected, enemy_count, enemy_spawns)
    /\ \E g \in { game_update(role, connected, is_night, cycle_time, day_count,
                              enemy_spawn_timer, enemy_count, enemy_spawns, kills,
                              frames) } :
          /\ is_night' = g.clock.is_night
          /\ cycle_time' = g.clock.cycle_time
          /\ day_count' = g.clock.day_count
          /\ enemy_spawn_timer' = g.spawn.enemy_spawn_timer
          /\ enemy_count' = g.spawn.enemy_count
    /\ ticks' = ticks + 1
    /\ UNCHANGED <<role, connected, frames, ents>>
    /\ UNCHANGED moveVars
    /\ UNCHANGED combatVars
    /\ UNCHANGED harvestVars
    /\ UNCHANGED netVars
    /\ UNCHANGED laterVars

\* GameWindow.check_connection: the host accepts its client
AcceptClient ==
    /\ role = "host" /\ ~connected
    /\ connected' = TRUE
    /\ UNCHANGED <<role, is_night, cycle_time, day_count, enemy_spawn_timer,
                   enemy_count, ticks, frames, ents>>
    /\ UNCHANGED moveVars
    /\ UNCHANGED combatVars
    /\ UNCHANGED harvestVars
    /\ UNCHANGED netVars
    /\ UNCHANGED laterVars

NextDirector ==
    \/ \E enemy_spawns \in 0..1, kills \in 0..1 : DirectorTick(enemy_spawns, kills)
    \/ AcceptClient

SpecDirector == InitDirector /\ [][NextDirector]_vars

----------------------------------------------------------------------------
\* Claims on the encounter director

\* C8 (as claimed): in every state of a running game, whatever the role, the
\* number of enemy entities is at most min(NIGHT_MAX_ENEMIES_BASE +
\* (day_count - 1) * NIGHT_MAX_ENEMIES_PER_DAY, MAX_ENEMIES).
C8_SpawnCap ==
    enemy_count <= Min2(NIGHT_MAX_ENEMIES_BASE
                          + (day_count - 1) * NIGHT_MAX_ENEMIES_PER_DAY,
                        MAX_ENEMIES)

\* C21: the director creates an enemy only in an update in which is_night is
\* true when the director runs; an update of the day phase, the one in which
\* night turns to day included, has no director spawn.  A director spawn
\* shows as an enemy more where no peer announces enemies, or as the spawn
\* timer set back to zero.
C21_SpawnsOnlyAtNight ==
    [][ ( \/ (role # "client" /\ enemy_count' > enemy_count)
          \/ (enemy_spawn_timer > 0 /\ enemy_spawn_timer' = 0) )
        => is_night' ]_vars

\* the director has spawned in the first night and the second day has begun
C21_Witness ==
    /\ role = "single"
    /\ enemy_count > 0
    /\ day_count = 2
    /\ ~is_night
    /\ cycle_time = 0

(***************************************************************************)
(* NetworkManager: the reader thread.  A frame on the wire is a 4-byte     *)
(* big-endian length followed by that many payload bytes; the payload is   *)
(* the UTF-8 text of a JSON document.  Bytes are the integers 0..255.      *)
(***************************************************************************)

RECV_SIZE == 4096

\* struct.pack('!I', n)
pack_length(n) ==
    << n \div 16777216, (n \div 65536) % 256, (n \div 256) % 256, n % 256 >>

\* struct.unpack('!I', b)[0].  A length whose first byte is not zero is at
\* least 2^24, more than any buffer here holds; only its comparison with the
\* buffer's length is ever used, so 2^24 stands for all of them.
unpack_length(b) ==
    IF b[1] = 0 THEN (b[2] * 256 + b[3]) * 256 + b[4] ELSE 16777216

\* b[lo:hi] of Python: the bytes at the 0-based positions lo .. hi-1 that exist.
slice(b, lo, hi) == SubSeq(b, lo + 1, Min2(hi, Len(b)))

\* The bytes of a frame: send_data prefixes the payload with its length.
frame_bytes(payload) == pack_length(Len(payload)) \o payload

\* bytes.decode('utf-8') of payloads whose bytes are ASCII or 0xFF: 0xFF never
\* occurs in UTF-8, every ASCII byte is a character.
utf8_decodes(data_bytes) == \A i \in 1..Len(data_bytes) : data_bytes[i] < 128

IsDigit(c) == c >= 48 /\ c <= 57

RECURSIVE digits_value(_, _)
digits_value(text, n) ==
    IF n = 0 THEN 0 ELSE digits_value(text, n - 1) * 10 + (text[n] - 48)

\* json.loads(data_bytes.decode('utf-8')) on texts made of the digits 1..9 and
\* of ']': such a text is a JSON document exactly when it is a non-empty run
\* of digits, and its value is that number; every other text raises.
json_loads(data_bytes) ==
    IF /\ utf8_decodes(data_bytes)
       /\ Len(data_bytes) > 0
       /\ \A i \in 1..Len(data_bytes) : IsDigit(data_bytes[i]) /\ data_bytes[i] # 48
    THEN [ok |-> TRUE, message |-> digits_value(data_bytes, Len(data_bytes))]
    ELSE [ok |-> FALSE, message |-> 0]

\* len(self.pending_data) >= 4, with the length read from the first 4 bytes:
\* a frame that is not wholly in the buffer yet is cut at whatever arrived.
frame_complete_early(pending, length) == Len(pending) >= 4

\* len(self.pending_data) >= 4 + length
frame_complete(pending, length) == Len(pending) >= 4 + length

\* try: ... received_messages.append(message) ... except: pass, with a payload
\* that raises appended all the same.
enqueue_any(messages, d, m) == Append(messages, m)

\* try: message = json.loads(...); received_messages.append(message)
\* except: pass
enqueue(messages, d, m) == IF d.ok THEN Append(messages, m) ELSE messages

\* One pass of the inner while loop over a buffer that begins at `offset` of
\* the stream and holds at least 4 bytes.
parse_frame(pending, messages, log, offset, length) ==
    IF frame_complete(pending, length)
    THEN LET d == json_loads(slice(pending, 4, 4 + length)) IN
         [ pending_data      |-> slice(pending, 4 + length, Len(pending)),
           received_messages |-> enqueue(messages, d, d.message),
           enqueued          |-> enqueue(log, d, [message |-> d.message,
                                                  start |-> offset]),
           reader_pc         |-> "parse" ]
    ELSE [ pending_data      |-> pending,
           received_messages |-> messages,
           enqueued          |-> log,
           reader_pc         |-> "recv" ]

\* while len(self.pending_data) >= 4: ... else back to recv
parse_step(pending, messages, log, offset) ==
    IF Len(pending) >= 4
    THEN parse_frame(pending, messages, log, offset,
                     unpack_length(SubSeq(pending, 1, 4)))
    ELSE [ pending_data      |-> pending,
           received_messages |-> messages,
           enqueued          |-> log,
           reader_pc         |-> "recv" ]

----------------------------------------------------------------------------
(* History: where each frame of the stream begins and ends. *)

RECURSIVE frame_end(_, _)
frame_end(s, k) == IF k = 0 THEN 0 ELSE frame_end(s, k - 1) + 4 + Len(s[k])

frame_start(s, k) == frame_end(s, k - 1)

RECURSIVE encode_stream(_, _)
encode_stream(s, k) ==
    IF k = 0 THEN << >> ELSE encode_stream(s, k - 1) \o frame_bytes(s[k])

\* The number of bytes recv has returned so far.
arrived == frame_end(stream, Len(stream)) - Len(wire)

\* The messages of the decodable frames among the first k that ended at or
\* before byte n of the stream, in the order of the stream.
RECURSIVE decodable(_, _, _)
decodable(s, k, n) ==
    IF k = 0 THEN << >>
    ELSE LET d == json_loads(s[k]) IN
         IF d.ok /\ frame_end(s, k) <= n
         THEN Append(decodable(s, k - 1, n),
                     [message |-> d.message, start |-> frame_start(s, k)])
         ELSE decodable(s, k - 1, n)

----------------------------------------------------------------------------
(* SpecNet: a connected peer sends MaxFrames frames; recv hands them to    *)
(* the reader thread in chunks of any size while the simulation thread     *)
(* drains the queue.                                                       *)

\* "1", "12", "]" and the byte 0xFF
Payloads == { <<49>>, <<49, 50>>, <<93>>, <<255>> }

NetRoles == { "host", "client" }

InitNet ==
    /\ LaterIdle
    /\ CombatIdle
    /\ HarvestIdle
    /\ pos = <<0, 0>>
    /\ wood = 0
    /\ ents = << >>
    /\ last_interact_pressed = FALSE
    /\ ticks = 0
    /\ vacated = {}
    /\ slideCase = NoSlide
    /\ reverted = NoRevert
    /\ penetrates = FALSE
    /\ frames = 1
    /\ role \in NetRoles
    \* start_receive_thread runs once the two sides are connected
    /\ connected = TRUE
    /\ is_night = FALSE
    /\ cycle_time = 0
    /\ day_count = 1
    /\ enemy_spawn_timer = 0
    /\ enemy_count = 0
    /\ stream \in [1..MaxFrames -> Payloads]
    /\ prefixes = [k \in 1..MaxFrames |-> Len(stream[k])]
    /\ wire = encode_stream(stream, MaxFrames)
    /\ pending_data = << >>
    /\ received_messages = << >>
    /\ enqueued = << >>
    /\ split_frames = {}
    /\ reader_pc = "recv"

\* chunk = socket_to_use.recv(4096); self.pending_data += chunk
Recv(n) ==
    /\ connected
    /\ reader_pc = "recv"
    /\ n >= 1
    /\ n <= Min2(Len(wire), RECV_SIZE)
    /\ pending_data' = pending_data \o SubSeq(wire, 1, n)
    /\ wire' = SubSeq(wire, n + 1, Len(wire))
    /\ split_frames' = split_frames \cup
          { k \in 1..Len(stream) : /\ frame_start(stream, k) < arrived + n
                                   /\ arrived + n < frame_end(stream, k) }
    /\ reader_pc' = "parse"
    /\ UNCHANGED <<stream, prefixes, received_messages, enqueued>>
    /\ UNCHANGED directorVars
    /\ UNCHANGED <<ents, ticks, frames>>
    /\ UNCHANGED moveVars
    /\ UNCHANGED combatVars
    /\ UNCHANGED harvestVars
    /\ UNCHANGED laterVars

\* One pass of `while len(self.pending_data) >= 4`.
ParseFrame ==
    /\ connected
    /\ reader_pc = "parse"
    /\ \E r \in { parse_step(pending_data, received_messages, enqueued,
                             arrived - Len(pending_data)) } :
          /\ pending_data' = r.pending_data
          /\ received_messages' = r.received_messages
          /\ enqueued' = r.enqueued
          /\ reader_pc' = r.reader_pc
    /\ UNCHANGED <<stream, prefixes, wire, split_frames>>
    /\ UNCHANGED directorVars
    /\ UNCHANGED <<ents, ticks, frames>>
    /\ UNCHANGED moveVars
    /\ UNCHANGED combatVars
    /\ UNCHANGED harvestVars
    /\ UNCHANGED laterVars

\* recv returns b'' once the peer has shut its side down and every byte it
\* sent has been read: self.connected = False; break
PeerCloses ==
    /\ connected
    /\ reader_pc = "recv"
    /\ wire = << >>
    /\ connected' = FALSE
    /\ UNCHANGED <<role, is_night, cycle_time, day_count, enemy_spawn_timer,
                   enemy_count>>
    /\ UNCHANGED netVars
    /\ UNCHANGED laterVars
    /\ UNCHANGED <<ents, ticks, frames>>
    /\ UNCHANGED moveVars
    /\ UNCHANGED combatVars
    /\ UNCHANGED harvestVars

\* receive_data_non_blocking, called by the simulation thread every tick.
ReceiveDataNonBlocking ==
    /\ received_messages # << >>
    /\ received_messages' = << >>
    /\ UNCHANGED <<stream, prefixes, wire, pending_data, enqueued, split_frames,
                   reader_pc>>
    /\ UNCHANGED directorVars
    /\ UNCHANGED <<ents, ticks, frames>>
    /\ UNCHANGED moveVars
    /\ UNCHANGED combatVars
    /\ UNCHANGED harvestVars
    /\ UNCHANGED laterVars

NextNet ==
    \/ \E n \in 1..Len(wire) : Recv(n)
    \/ ParseFrame
    \/ PeerCloses
    \/ ReceiveDataNonBlocking

SpecNet == InitNet /\ [][NextNet]_vars

----------------------------------------------------------------------------
(* Claims about the reader thread. *)

enqueued_for(k) ==
    { i \in 1..Len(enqueued) : enqueued[i].start = frame_start(stream, k) }

\* C9: every frame whose payload decodes, however recv cuts its bytes into
\* chunks, is enqueued at most once and with its own message; nothing is
\* enqueued for it while some of its bytes have not arrived; and once all of
\* them have and the reader is back in recv, it has been enqueued exactly once.
C9_FragmentedFrame ==
    \A k \in 1..Len(stream) :
        json_loads(stream[k]).ok =>
            /\ Cardinality(enqueued_for(k)) <= 1
            /\ \A i \in enqueued_for(k) :
                  enqueued[i].message = json_loads(stream[k]).message
            /\ arrived < frame_end(stream, k) => enqueued_for(k) = {}
            /\ (arrived >= frame_end(stream, k) /\ reader_pc = "recv")
                  => Cardinality(enqueued_for(k)) = 1

\* A decodable frame that arrived in two or more chunks has been enqueued.
C9_Witness ==
    \E k \in 1..Len(stream) :
        /\ json_loads(stream[k]).ok
        /\ k \in split_frames
        /\ enqueued_for(k) # {}

\* C10: a frame whose payload does not decode is never enqueued and does not
\* close the connection (it is open as long as bytes remain to be read), and
\* the queue receives exactly the decodable frames, once each and in the
\* order of the stream: always a prefix of them, and all of those that have
\* arrived whenever the reader is back in recv.
C10_BadFrameDropped ==
    /\ \A k \in 1..Len(stream) : ~json_loads(stream[k]).ok => enqueued_for(k) = {}
    /\ connected \/ wire = << >>
    /\ LET all == decodable(stream, Len(stream), frame_end(stream, Len(stream))) IN
          /\ Len(enqueued) <= Len(all)
          /\ enqueued = SubSeq(all, 1, Len(enqueued))
    /\ reader_pc = "recv" => enqueued = decodable(stream, Len(stream), arrived)

\* An undecodable frame has arrived, nothing was enqueued for it, and two
\* decodable frames that follow it have been enqueued with the connection open.
C10_Witness ==
    /\ connected
    /\ Len(stream) >= 3
    /\ ~json_loads(stream[1]).ok
    /\ json_loads(stream[2]).ok
    /\ json_loads(stream[3]).ok
    /\ enqueued_for(1) = {}
    /\ enqueued_for(2) # {}
    /\ enqueued_for(3) # {}

----------------------------------------------------------------------------
(* SpecBadLength: as SpecNet, but the prefix of one frame of the stream    *)
(* announces a length that is not the length of its payload: one byte      *)
(* less, one byte more, or far more than the bytes that follow.            *)

\* The bytes of the first k frames, each payload behind the prefix pre[k].
RECURSIVE prefixed_stream(_, _, _)
prefixed_stream(s, pre, k) ==
    IF k = 0 THEN << >>
    ELSE prefixed_stream(s, pre, k - 1) \o pack_length(pre[k]) \o s[k]

BadLengths(n) == { n + 1, 16777216 } \cup (IF n > 0 THEN { n - 1 } ELSE {})

InitBadLength ==
    /\ LaterIdle
    /\ CombatIdle
    /\ HarvestIdle
    /\ pos = <<0, 0>>
    /\ wood = 0
    /\ ents = << >>
    /\ last_interact_pressed = FALSE
    /\ ticks = 0
    /\ vacated = {}
    /\ slideCase = NoSlide
    /\ reverted = NoRevert
    /\ penetrates = FALSE
    /\ frames = 1
    /\ role \in NetRoles
    /\ connected = TRUE
    /\ is_night = FALSE
    /\ cycle_time = 0
    /\ day_count = 1
    /\ enemy_spawn_timer = 0
    /\ enemy_count = 0
    /\ stream \in [1..MaxFrames -> Payloads]
    /\ \E bad \in 1..(MaxFrames - 1) : \E n \in BadLengths(Len(stream[bad])) :
          prefixes = [k \in 1..MaxFrames |->
                         IF k = bad THEN n ELSE Len(stream[k])]
    /\ wire = prefixed_stream(stream, prefixes, MaxFrames)
    /\ pending_data = << >>
    /\ received_messages = << >>
    /\ enqueued = << >>
    /\ split_frames = {}
    /\ reader_pc = "recv"

SpecBadLength == InitBadLength /\ [][NextNet]_vars

bad_length(k) == prefixes[k] # Len(stream[k])

\* C11: once the whole stream has arrived and the reader is back in recv,
\* every decodable frame with a true prefix that follows the frame with the
\* bad prefix has been enqueued with its own message.
C11_BadLengthDiscarded ==
    (reader_pc = "recv" /\ wire = << >>) =>
        \A k \in 1..Len(stream) :
            ( /\ ~bad_length(k)
              /\ json_loads(stream[k]).ok
              /\ \E j \in 1..(k - 1) : bad_length(j) )
            => \E i \in 1..Len(enqueued) :
                  enqueued[i] = [message |-> json_loads(stream[k]).message,
                                 start |-> frame_start(stream, k)]

(***************************************************************************)
(* ECS core: Entity and World.  An entity is an id; Entity.components is   *)
(* kept for every Entity object ever created, because the object (and its  *)
(* world field) outlives the entity's removal from the World.  Entity      *)
(* .active is set to True at construction and never written again.         *)
(***************************************************************************)

ComponentTypes == { "PositionComponent", "SizeComponent" }

\* World._register_component
register_component(index, comp_type, id) ==
    IF comp_type \in DOMAIN index
    THEN [index EXCEPT ![comp_type] = @ \cup {id}]
    ELSE index @@ (comp_type :> {id})

\* World._unregister_component: an emptied set is deleted from the index
unregister_component(index, comp_type, id) ==
    IF comp_type \notin DOMAIN index THEN index
    ELSE IF index[comp_type] \ {id} = {}
         THEN [t \in DOMAIN index \ {comp_type} |-> index[t]]
         ELSE [index EXCEPT ![comp_type] = @ \ {id}]

\* World._unregister_entity_components
RECURSIVE unregister_entity_components(_, _, _)
unregister_entity_components(index, comp_types, id) ==
    IF comp_types = {} THEN index
    ELSE LET t == CHOOSE t \in comp_types : TRUE
         IN unregister_entity_components(unregister_component(index, t, id),
                                         comp_types \ {t}, id)

\* Variant: the entity leaves the World at the call.
remove_entity_at_once(es, marks, id) ==
    [entities |-> es \ {id}, entities_to_remove |-> marks \cup {id}]

\* World.remove_entity
remove_entity(es, marks, id) ==
    [entities |-> es, entities_to_remove |-> marks \cup {id}]

\* World.get_entity: the entity, or None
get_entity(es, id) == IF id \in es THEN id ELSE "None"

\* World.get_entities_with: the ids of the entities returned, or KeyError when
\* self.entities[e_id] is looked up for an id that is not in the World.
get_entities_with(es, index, comp_types) ==
    IF comp_types = {}
    THEN [raises |-> FALSE, ids |-> es]
    ELSE IF \E t \in comp_types : t \notin DOMAIN index \/ index[t] = {}
    THEN [raises |-> FALSE, ids |-> {}]
    ELSE LET common_ids ==
                 { id \in UNION { index[t] : t \in comp_types } :
                      \A t \in comp_types : id \in index[t] }
         IN IF common_ids \subseteq es
            THEN [raises |-> FALSE, ids |-> common_ids]
            ELSE [raises |-> TRUE, ids |-> {}]

\* "Clean up removed entities", one marked id after the other
RECURSIVE clean_up_entities(_, _, _, _)
clean_up_entities(es, comps, index, marks) ==
    IF marks = {} THEN [entities |-> es, component_index |-> index]
    ELSE LET id == CHOOSE id \in marks : TRUE
         IN IF id \in es
            THEN clean_up_entities(es \ {id}, comps,
                                   unregister_entity_components(index, comps[id], id),
                                   marks \ {id})
            ELSE clean_up_entities(es, comps, index, marks \ {id})

----------------------------------------------------------------------------
(* SpecWorld: game code and systems call the World's operations in any     *)
(* order, between updates and from inside World.update.                    *)

InitWorld ==
    /\ CombatIdle
    /\ HarvestIdle
    /\ DirectorIdle
    /\ WorldIdle
    /\ OrderIdle
    /\ LastIdle
    /\ pos = <<0, 0>>
    /\ wood = 0
    /\ ents = << >>
    /\ last_interact_pressed = FALSE
    /\ ticks = 0
    /\ vacated = {}
    /\ slideCase = NoSlide
    /\ reverted = NoRevert
    /\ penetrates = FALSE
    /\ frames = 1

\* World.create_entity
CreateEntity ==
    /\ next_id < MaxEntities
    /\ entities' = entities \cup {next_id}
    /\ components' = components @@ (next_id :> {})
    /\ next_id' = next_id + 1
    /\ UNCHANGED <<component_index, entities_to_remove, system_pc, marked_by>>
    /\ UNCHANGED earlierVars
    /\ UNCHANGED <<orderVars, lastVars>>

\* Entity.add_component, on any Entity object, in the World or removed from it
AddComponent(id, comp_type) ==
    /\ id \in DOMAIN components
    /\ components' = [components EXCEPT ![id] = @ \cup {comp_type}]
    /\ component_index' = register_component(component_index, comp_type, id)
    /\ UNCHANGED <<entities, entities_to_remove, next_id, system_pc, marked_by>>
    /\ UNCHANGED earlierVars
    /\ UNCHANGED <<orderVars, lastVars>>

\* Entity.remove_component
RemoveComponent(id, comp_type) ==
    /\ id \in DOMAIN components
    /\ comp_type \in components[id]
    /\ components' = [components EXCEPT ![id] = @ \ {comp_type}]
    /\ component_index' = unregister_component(component_index, comp_type, id)
    /\ UNCHANGED <<entities, entities_to_remove, next_id, system_pc, marked_by>>
    /\ UNCHANGED earlierVars
    /\ UNCHANGED <<orderVars, lastVars>>

\* World.remove_entity
RemoveEntity(id) ==
    /\ id \in DOMAIN components
    /\ id \notin entities_to_remove
    /\ \E r \in { remove_entity(entities, entities_to_remove, id) } :
          /\ entities' = r.entities
          /\ entities_to_remove' = r.entities_to_remove
    /\ marked_by' = IF id \in entities THEN marked_by @@ (id :> system_pc)
                                       ELSE marked_by
    /\ UNCHANGED <<components, component_index, next_id, system_pc>>
    /\ UNCHANGED earlierVars
    /\ UNCHANGED <<orderVars, lastVars>>

\* World.update: the next system starts
RunSystem ==
    /\ system_pc < WorldSystems
    /\ system_pc' = system_pc + 1
    /\ UNCHANGED <<entities, components, component_index, entities_to_remove,
                   next_id, marked_by>>
    /\ UNCHANGED earlierVars
    /\ UNCHANGED <<orderVars, lastVars>>

\* World.update after the last system: the marked entities leave the World
CleanUp ==
    /\ system_pc = WorldSystems
    /\ \E c \in { clean_up_entities(entities, components, component_index,
                                    entities_to_remove) } :
          /\ entities' = c.entities
          /\ component_index' = c.component_index
    /\ entities_to_remove' = {}
    /\ marked_by' = [e \in {} |-> 0]
    /\ system_pc' = 0
    /\ UNCHANGED <<components, next_id>>
    /\ UNCHANGED earlierVars
    /\ UNCHANGED <<orderVars, lastVars>>

NextWorld ==
    \/ CreateEntity
    \/ \E id \in 0..(MaxEntities - 1), comp_type \in ComponentTypes :
          AddComponent(id, comp_type)
    \/ \E id \in 0..(MaxEntities - 1), comp_type \in ComponentTypes :
          RemoveComponent(id, comp_type)
    \/ \E id \in 0..(MaxEntities - 1) : RemoveEntity(id)
    \/ RunSystem
    \/ CleanUp

SpecWorld == InitWorld /\ [][NextWorld]_vars

----------------------------------------------------------------------------
(* Claims about the ECS core. *)

returned(comp_types) == get_entities_with(entities, component_index, comp_types)

C19_QueryIsIntersection ==
    \A ts \in SUBSET ComponentTypes :
        /\ ~returned(ts).raises
        /\ returned(ts).ids = { id \in entities : ts \subseteq components[id] }

(***************************************************************************)
(* The order of the subsystems within one GameWindow.update.               *)
(***************************************************************************)

\* System.priority of every system class ("Lower runs first")
priority(s) ==
    CASE s = "InputSystem" -> 0
      [] s = "SpatialPartitionSystem" -> 5
      [] s = "MovementSystem" -> 10
      [] s = "EnemyAISystem" -> 15
      [] s = "ProjectileSystem" -> 20
      [] s = "StairsSystem" -> 23
      [] s = "InteractionSystem" -> 24
      [] s = "HarvestSystem" -> 25
      [] s = "WallSystem" -> 26
      [] s = "CollisionSystem" -> 30
      [] s = "RenderSystem" -> 100

\* list.sort(key=lambda s: s.priority) of a sorted list with one new last
\* element: the sort is stable, the element moves before the first system of
\* a higher priority.
RECURSIVE sort_last(_, _)
sort_last(sorted, s) ==
    IF sorted = << >> THEN << s >>
    ELSE IF priority(sorted[Len(sorted)]) <= priority(s)
         THEN Append(sorted, s)
         ELSE Append(sort_last(SubSeq(sorted, 1, Len(sorted) - 1), s),
                     sorted[Len(sorted)])

\* Variant: the list is left in the order of registration.
add_system_unsorted(registered, s) == Append(registered, s)

\* World.add_system
add_system(registered, s) == sort_last(registered, s)

\* the calls of add_system for the systems of registration, first to k-th
RECURSIVE add_systems(_, _)
add_systems(registration, k) ==
    IF k = 0 THEN << >>
    ELSE add_system(add_systems(registration, k - 1), registration[k])

\* "Add ECS Systems" of GameWindow.__init__
Registration ==
    << "InputSystem", "SpatialPartitionSystem", "MovementSystem", "EnemyAISystem",
       "ProjectileSystem", "InteractionSystem", "StairsSystem", "HarvestSystem",
       "WallSystem", "CollisionSystem", "RenderSystem" >>

\* The same systems registered in other orders: last to first, and with the
\* render system first.
Registrations ==
    { Registration,
      [k \in 1..Len(Registration) |-> Registration[Len(Registration) + 1 - k]],
      << "RenderSystem" >> \o SubSeq(Registration, 1, Len(Registration) - 1) }

\* "Handle networking" runs in a multiplayer game while connected
networking(r, conn) == r # "single" /\ conn

\* "Enemy spawning (only at night)": single player, or a connected host
directing(r, conn, night) == night /\ (r = "single" \/ (r = "host" /\ conn))

----------------------------------------------------------------------------
(* SpecOrder: GameWindow.update, step by step, for every role, by day and  *)
(* by night, with the systems registered in one of Registrations.          *)

InitOrder ==
    /\ CombatIdle
    /\ HarvestIdle
    /\ NetIdle
    /\ WorldIdle
    /\ LastIdle
    /\ pos = <<0, 0>>
    /\ wood = 0
    /\ ents = << >>
    /\ last_interact_pressed = FALSE
    /\ ticks = 0
    /\ vacated = {}
    /\ slideCase = NoSlide
    /\ reverted = NoRevert
    /\ penetrates = FALSE
    /\ frames = 1
    /\ role \in Roles
    /\ connected \in (IF role = "single" THEN { FALSE } ELSE BOOLEAN)
    /\ is_night \in BOOLEAN
    /\ cycle_time = 0
    /\ day_count = 1
    /\ enemy_spawn_timer = 0
    /\ enemy_count = 0
    /\ \E registration \in Registrations :
          systems = add_systems(registration, Len(registration))
    /\ stage = "idle"
    /\ order = << >>

othersUnchangedByOrder ==
    /\ UNCHANGED <<systems, role, connected, is_night, cycle_time, day_count,
                   enemy_spawn_timer, enemy_count>>
    /\ UNCHANGED <<entities, components, component_index, entities_to_remove,
                   next_id, marked_by>>
    /\ UNCHANGED <<ents, frames>>
    /\ UNCHANGED moveVars
    /\ UNCHANGED combatVars
    /\ UNCHANGED harvestVars
    /\ UNCHANGED netVars
    /\ UNCHANGED lastVars

\* GameWindow.update is called; the clock, lighting and camera come first
BeginUpdate ==
    /\ stage = "idle"
    /\ ticks < MaxOrderTicks
    /\ ticks' = ticks + 1
    /\ order' = << >>
    /\ stage' = "networking"
    /\ UNCHANGED system_pc
    /\ othersUnchangedByOrder

\* "Handle networking"
HandleNetworking ==
    /\ stage = "networking"
    /\ order' = IF networking(role, connected) THEN Append(order, "network")
                                               ELSE order
    /\ stage' = "world"
    /\ UNCHANGED <<ticks, system_pc>>
    /\ othersUnchangedByOrder

\* World.update: the next system of World.systems runs
RunNextSystem ==
    /\ stage = "world"
    /\ system_pc < Len(systems)
    /\ system_pc' = system_pc + 1
    /\ order' = Append(order, systems[system_pc + 1])
    /\ UNCHANGED <<ticks, stage>>
    /\ othersUnchangedByOrder

\* World.update returns; try_shoot
TryShoot ==
    /\ stage = "world"
    /\ system_pc = Len(systems)
    /\ system_pc' = 0
    /\ order' = Append(order, "try_shoot")
    /\ stage' = "spawning"
    /\ UNCHANGED ticks
    /\ othersUnchangedByOrder

\* "Enemy spawning (only at night)", then the labels: the update is over
SpawnEnemies ==
    /\ stage = "spawning"
    /\ order' = IF directing(role, connected, is_night)
                THEN Append(order, "director") ELSE order
    /\ stage' = "idle"
    /\ UNCHANGED <<ticks, system_pc>>
    /\ othersUnchangedByOrder

NextOrder ==
    \/ BeginUpdate
    \/ HandleNetworking
    \/ RunNextSystem
    \/ TryShoot
    \/ SpawnEnemies

SpecOrder == InitOrder /\ [][NextOrder]_vars

----------------------------------------------------------------------------
(* Claims about the order of a tick. *)

ran(s) ==
    CASE s = "network" -> networking(role, connected)
      [] s = "director" -> directing(role, connected, is_night)
      [] OTHER -> TRUE

\* the subsystems of the claim, in the order it gives
ClaimedOrder ==
    << "InputSystem", "SpatialPartitionSystem", "MovementSystem", "EnemyAISystem",
       "ProjectileSystem", "StairsSystem", "InteractionSystem", "HarvestSystem",
       "WallSystem", "CollisionSystem", "director", "network", "RenderSystem" >>

\* the order of the amended claim
UpdateOrder ==
    << "network", "InputSystem", "SpatialPartitionSystem", "MovementSystem",
       "EnemyAISystem", "ProjectileSystem", "StairsSystem", "InteractionSystem",
       "HarvestSystem", "WallSystem", "CollisionSystem", "RenderSystem",
       "try_shoot", "director" >>

----------------------------------------------------------------------------
\* State synchronisation (src/game.py: NetworkManager.send_data,
\* GameWindow.update "Handle networking" and "Enemy spawning",
\* GameWindow.try_shoot).  Times are in ms.

MaxSyncTicks == 3

\* NetworkManager.send_interval = 1.0 / 20
send_interval == 50

PROJECTILE_FIRE_RATE == 500

\* dt of an update: a frame of 1/FPS s, or a slow one
SyncGaps == { 17, 50 }

\* the time between the two send_data calls of one update
SyncWork == { 0, 33 }

\* GameWindow.__init__: self.my_player_id = 1 if is_host else 2
my_player_id(r) == IF r = "host" THEN 1 ELSE 2

\* the player_id of other_player_entity
other_player_id(r) == IF r = "host" THEN 2 ELSE 1

\* variant: no send interval
never_throttled(current_time, last) == FALSE

\* send_data: if current_time - self.last_send_time < self.send_interval
throttled(current_time, last) == current_time - last < send_interval

\* variant: the socket error leaves send_data
socket_error_uncaught(conn) == [connected |-> conn, raises |-> TRUE]

\* send_data: except socket.error / except Exception: self.connected = False
socket_error(conn) == [connected |-> FALSE, raises |-> FALSE]

\* The part of the state that send_data reads and writes, with the histories.
Link ==
    [connected |-> connected, last_send_time |-> last_send_time,
     calls |-> calls, transmitted |-> transmitted, skipped |-> skipped,
     raises |-> FALSE, failed |-> FALSE]

\* NetworkManager.send_data(data) at current_time; sendall succeeds or raises
send_data(l, type, current_time, sendall_ok) ==
    LET call == l.calls + 1
        counted == [l EXCEPT !.calls = call]
    IN  IF ~l.connected THEN counted
        ELSE IF throttled(current_time, l.last_send_time)
        THEN [counted EXCEPT !.skipped = @ \cup { call }]
        ELSE IF sendall_ok
        THEN [counted EXCEPT
                !.transmitted = Append(@, [call |-> call, type |-> type,
                                           at |-> current_time]),
                !.last_send_time = current_time]
        ELSE LET caught == socket_error(l.connected)
             IN  [counted EXCEPT !.connected = caught.connected,
                                 !.raises = caught.raises,
                                 !.failed = TRUE]

\* A decoded message: its type, the keys it holds (those of 'player' for a
\* player_update) and the player id it names.
Message(type, has, id) == [type |-> type, has |-> has, id |-> id]

Inbound(r) ==
    { Message("player_update", {"player", "id", "x", "y"}, other_player_id(r)),
      Message("player_update", {"player", "id", "y"}, other_player_id(r)),
      Message("player_update", {}, 0),
      Message("projectile", {"x", "y", "dx", "dy", "owner_id"}, other_player_id(r)),
      Message("projectile", {"x", "y", "dy", "owner_id"}, other_player_id(r)),
      Message("projectile", {"x", "y", "dx", "dy"}, 0),
      Message("enemy_spawn", {"x", "y", "id"}, 0),
      Message("enemy_spawn", {"y", "id"}, 0),
      Message("chat", {"text"}, 0) }

\* The body of `for data in messages`: the subscripts raise KeyError on a
\* missing key, .get does not.
handle_message(r, data) ==
    IF data.type = "player_update"
    THEN IF "id" \in data.has /\ data.id = other_player_id(r)
         THEN [raises |-> ~({"x", "y"} \subseteq data.has), enemy |-> 0]
         ELSE [raises |-> FALSE, enemy |-> 0]
    ELSE IF data.type = "projectile"
    THEN IF ~("owner_id" \in data.has /\ data.id = my_player_id(r))
         THEN [raises |-> ~({"x", "y", "dx", "dy", "owner_id"} \subseteq data.has),
               enemy |-> 0]
         ELSE [raises |-> FALSE, enemy |-> 0]
    ELSE IF data.type = "enemy_spawn" /\ r # "host"
    THEN IF {"x", "y"} \subseteq data.has
         THEN [raises |-> FALSE, enemy |-> 1]
         ELSE [raises |-> TRUE, enemy |-> 0]
    ELSE [raises |-> FALSE, enemy |-> 0]

\* for data in messages: ..., from message k on; the loop ends at the first
\* exception
RECURSIVE handle_messages(_, _, _)
handle_messages(r, messages, k) ==
    IF k > Len(messages) THEN [raises |-> FALSE, enemy |-> 0]
    ELSE LET one == handle_message(r, messages[k])
         IN  IF one.raises THEN one
             ELSE LET rest == handle_messages(r, messages, k + 1)
                  IN  [raises |-> rest.raises, enemy |-> one.enemy + rest.enemy]

\* ProjectileComponent(owner_id): network_sent defaults to False
ProjectileComponent(owner_id, tick, conn) ==
    [owner_id |-> owner_id, network_sent |-> FALSE, created |-> tick,
     connected |-> conn]

\* GameWindow.try_shoot with an arrow key held or not
try_shoot(r, arrows, tick, conn) ==
    IF game_time' - last_fire_time < PROJECTILE_FIRE_RATE \/ ~arrows
    THEN /\ shots' = shots
         /\ last_fire_time' = last_fire_time
    ELSE /\ shots' = Append(shots, ProjectileComponent(my_player_id(r), tick, conn))
         /\ last_fire_time' = game_time'

InitSync ==
    /\ CombatIdle
    /\ HarvestIdle
    /\ NetIdle
    /\ WorldIdle
    /\ OrderIdle
    /\ TreeIdle
    /\ attempt = NoAttempt
    /\ RestIdle
    /\ pos = <<0, 0>>
    /\ wood = 0
    /\ ents = << >>
    /\ last_interact_pressed = FALSE
    /\ ticks = 0
    /\ vacated = {}
    /\ slideCase = NoSlide
    /\ reverted = NoRevert
    /\ penetrates = FALSE
    /\ frames = 1
    /\ role \in NetRoles
    /\ connected = TRUE
    /\ is_night \in BOOLEAN
    /\ cycle_time = 0
    /\ day_count = 1
    /\ enemy_spawn_timer = 0
    /\ enemy_count = 0
    /\ now = 1000
    /\ last_send_time = 0
    /\ game_time \in { 0, 490 }
    /\ last_fire_time = 0
    /\ shots = << >>
    /\ calls = 0
    /\ transmitted = << >>
    /\ skipped = {}
    /\ raised = {}
    /\ failed_at = -1

othersUnchangedBySync ==
    /\ UNCHANGED <<role, is_night, cycle_time, day_count, enemy_spawn_timer>>
    /\ UNCHANGED <<ents, frames>>
    /\ UNCHANGED moveVars
    /\ UNCHANGED combatVars
    /\ UNCHANGED harvestVars
    /\ UNCHANGED netVars
    /\ UNCHANGED worldVars
    /\ UNCHANGED orderVars
    /\ UNCHANGED <<treeVars, attempt, restVars>>

\* what a send_data call leaves behind
Linked(l) ==
    /\ connected' = l.connected
    /\ last_send_time' = l.last_send_time
    /\ calls' = l.calls
    /\ transmitted' = l.transmitted
    /\ skipped' = l.skipped
    /\ failed_at' = IF l.failed /\ failed_at = -1 THEN ticks ELSE failed_at

\* GameWindow.update stopped by an exception in the networking block
UpdateRaises(gap, l, cause) ==
    /\ Linked(l)
    /\ raised' = raised \cup { cause }
    /\ now' = now + gap
    /\ game_time' = game_time + gap
    /\ UNCHANGED <<ticks, enemy_count, shots, last_fire_time>>

\* GameWindow.update from world.update on: try_shoot, then the director,
\* which sends enemy_spawn for the enemy it spawned
UpdateCompletes(gap, work, arrows, due, l1, sendall_ok, spawned) ==
    LET spawns == is_night /\ role = "host" /\ l1.connected /\ due
        l2 == IF spawns
              THEN send_data(l1, "enemy_spawn", now + gap + work, sendall_ok)
              ELSE l1
    IN  /\ game_time' = game_time + gap
        /\ now' = now + gap + work
        /\ ticks' = ticks + 1
        /\ try_shoot(role, arrows, ticks + 1, l1.connected)
        /\ enemy_count' = enemy_count + spawned + (IF spawns THEN 1 ELSE 0)
        /\ IF l2.raises
           THEN /\ Linked([l2 EXCEPT !.raises = FALSE])
                /\ raised' = raised \cup { "socket" }
           ELSE /\ Linked(l2)
                /\ raised' = raised

\* GameWindow.update(dt) with a peer: player_update is sent, the messages the
\* reader thread has queued are handled, the World is updated, the player may
\* shoot and the director may spawn.
SyncTick(gap, work, arrows, due, sendall1_ok, sendall2_ok, messages) ==
    /\ raised = {}
    /\ ticks < MaxSyncTicks
    /\ \E l1 \in { IF connected
                   THEN send_data(Link, "player_update", now + gap, sendall1_ok)
                   ELSE Link } :
       \E handled \in { IF connected THEN handle_messages(role, messages, 1)
                        ELSE [raises |-> FALSE, enemy |-> 0] } :
          IF l1.raises
          THEN UpdateRaises(gap, [l1 EXCEPT !.raises = FALSE], "socket")
          ELSE IF handled.raises
          THEN UpdateRaises(gap, l1, "message")
          ELSE UpdateCompletes(gap, work, arrows, due, l1, sendall2_ok,
                               handled.enemy)
    /\ othersUnchangedBySync

\* The reader thread: recv raises or returns b'' (the peer closed):
\* self.connected = False; break
RecvFails ==
    /\ connected
    /\ connected' = FALSE
    /\ failed_at' = IF failed_at = -1 THEN ticks ELSE failed_at
    /\ UNCHANGED <<now, last_send_time, game_time, last_fire_time, shots, calls,
                   transmitted, skipped, raised, ticks, enemy_count>>
    /\ othersUnchangedBySync

\* what receive_data_non_blocking returns: nothing, or one message
Drained(r) ==
    { << >> } \cup { <<m>> : m \in Inbound(r) }

\* the outcomes of a sendall that is reached, TRUE where none is
Sendall(reached) == IF reached THEN BOOLEAN ELSE { TRUE }

NextSync ==
    \/ \E gap \in SyncGaps, arrows \in BOOLEAN,
          due \in (IF is_night /\ role = "host" /\ connected
                   THEN BOOLEAN ELSE { FALSE }),
          messages \in (IF connected THEN Drained(role) ELSE { << >> }) :
          \E work \in (IF due THEN SyncWork ELSE { 0 }),
             sendall1_ok \in Sendall(connected
                                     /\ ~throttled(now + gap, last_send_time)) :
             \E sendall2_ok \in Sendall(due /\ sendall1_ok) :
                SyncTick(gap, work, arrows, due, sendall1_ok, sendall2_ok,
                         messages)
    \/ RecvFails

SpecSync == InitSync /\ [][NextSync]_vars

\* C14: send_data transmits nothing when less than send_interval has elapsed
\* since the last successful send, and a call it skipped is never transmitted
\* later: any two transmitted messages are at least send_interval apart.
C14_SendsThrottled ==
    /\ \A i, j \in DOMAIN transmitted :
          i < j => transmitted[j].at - transmitted[i].at >= send_interval
    /\ \A i \in DOMAIN transmitted : transmitted[i].call \notin skipped
    /\ \A i, j \in DOMAIN transmitted :
          transmitted[i].call = transmitted[j].call => i = j

\* a call was skipped on the interval and a later call was transmitted
C14_Witness ==
    \E i \in DOMAIN transmitted :
        /\ i > 1
        /\ \E c \in skipped : transmitted[i - 1].call < c /\ c < transmitted[i].call

\* C15: every projectile the local player shot while the peer was connected is
\* marked as sent once a later update has seen it with the peer still
\* connected, and one projectile message was transmitted for each such shot.
C15_ShotSentOnce ==
    LET seen == { i \in DOMAIN shots :
                    shots[i].connected /\ shots[i].created < ticks }
        sent == { i \in DOMAIN transmitted : transmitted[i].type = "projectile" }
    IN  (connected /\ failed_at = -1 /\ skipped = {}) =>
           /\ \A i \in seen : shots[i].network_sent
           /\ Cardinality(sent) = Cardinality(seen)

\* C16: a socket error in send_data or a failed recv leaves connected False
\* and no exception of the socket leaves GameWindow.update.
C16_SocketFailureContained ==
    /\ failed_at >= 0 => ~connected
    /\ "socket" \notin raised

\* a sendall raised in one update and a later update has run to its end
C16_Witness ==
    /\ failed_at >= 0
    /\ ticks >= failed_at + 2
    /\ calls > Len(transmitted) + Cardinality(skipped)
    /\ ~connected
    /\ raised = {}

\* C17: handling a decoded message never raises an exception in
\* GameWindow.update, whatever fields it lacks.
C17_MissingFieldsTolerated == "message" \notin raised

\* C40: while the host stays connected, every enemy its director has spawned
\* was announced by an enemy_spawn message that was transmitted, also when a
\* player_update was sent earlier in the same update.
C40_SpawnsAnnounced ==
    (role = "host" /\ connected /\ failed_at = -1) =>
        Cardinality({ i \in DOMAIN transmitted :
                        transmitted[i].type = "enemy_spawn" }) = enemy_count
----------------------------------------------------------------------------
\* SpecBuild: the player walks beside a rock that does not sit on the grid
\* and builds walls, doors and stairs with the wood of two structures.

BuildWood == 2

BuildPositions == { <<3960, 2940>>, <<3942, 2940>> }

BuildRocks == << create_rock(3915, 2925, GRID_SIZE) >>

\* GameWindow.building_types
BuildingTypes == { "wall", "door", "stairs" }

InitBuild ==
    /\ WorldIdle
    /\ OrderIdle
    /\ LastIdle
    /\ CombatIdle
    /\ HarvestIdle
    /\ DirectorIdle
    /\ pos \in BuildPositions
    /\ wood = BuildWood
    /\ ents = BuildRocks
    /\ last_interact_pressed = FALSE
    /\ ticks = 0
    /\ vacated = {}
    /\ slideCase = NoSlide
    /\ reverted = NoRevert
    /\ penetrates = FALSE
    /\ frames \in MoveFrames
    /\ attempt = NoAttempt

\* The F key with the build menu open: try_build for the selected kind, with
\* what it found noted in attempt.
TryBuild(kind) ==
    /\ \E b \in { try_build(ents, pos, wood, kind) } :
          /\ ents' = b.ents
          /\ wood' = b.wood
    /\ \E g \in { snap_to_grid(player_center(pos)[1], player_center(pos)[2]) } :
          attempt' = [kind |-> kind,
                      rect |-> << g[1] - WALL_SIZE \div 2, g[2] - WALL_SIZE \div 2,
                                  WALL_SIZE, WALL_SIZE >>,
                      wood |-> wood, ents |-> ents]
    /\ UNCHANGED <<pos, last_interact_pressed, ticks, vacated, slideCase, reverted,
                   penetrates, frames>>
    /\ UNCHANGED combatVars
    /\ UNCHANGED harvestVars
    /\ UNCHANGED directorVars
    /\ UNCHANGED netVars
    /\ UNCHANGED <<worldVars, orderVars, syncVars, treeVars, restVars>>

\* The player walks left, right and down, and leaves the doors alone.
NextBuild ==
    \/ \E mx \in {-1, 0, 1}, my \in {-1, 0} : MoveTick(mx, my, FALSE)
    \/ \E kind \in BuildingTypes : TryBuild(kind)

SpecBuild == InitBuild /\ [][NextBuild]_vars

\* the rectangle try_build holds an existing wall, door, stairs or rock to
\* occupy: centred on the position for a structure, from the position for a
\* rock
occupied(e) ==
    IF e.kind = "rock" THEN << e.x, e.y, e.w, e.w >>
    ELSE << e.x - e.w \div 2, e.y - e.w \div 2, e.w, e.w >>

\* the last try_build found its cell overlapping an existing wall, door,
\* stairs or rock
cell_taken ==
    \E i \in 1..Len(attempt.ents) :
        check_collision(attempt.rect, occupied(attempt.ents[i]))

\* the last try_build has added a structure of its kind on its cell
structure_added ==
    /\ Len(ents) = Len(attempt.ents) + 1
    /\ ents[Len(ents)].kind = attempt.kind
    /\ occupied(ents[Len(ents)]) = attempt.rect

\* C18: a try_build on a cell that overlaps an existing wall, door, stairs or
\* rock, or with wood below the cost, creates no entity and leaves the wood
\* unchanged; wood goes down, by exactly the cost, only in a try_build that
\* creates a structure, and it is never negative.
C18_BuildRejectedOrPaid ==
    /\ wood >= 0
    /\ attempt # NoAttempt =>
          /\ (cell_taken \/ attempt.wood < WALL_WOOD_COST) =>
                 /\ Len(ents) = Len(attempt.ents)
                 /\ wood = attempt.wood
          /\ wood # attempt.wood =>
                 /\ wood = attempt.wood - WALL_WOOD_COST
                 /\ structure_added
          /\ Len(ents) # Len(attempt.ents) =>
                 /\ wood = attempt.wood - WALL_WOOD_COST
                 /\ structure_added

\* C31 (as claimed): for every structure in the World the rectangle that
\* get_entity_rect derives from its position and size is the rectangle that
\* try_build's overlap check, WallSystem's activation and InteractionSystem's
\* door toggle use for it.
C31_OneRectangle ==
    \A i \in 1..Len(ents) :
        /\ get_entity_rect(ents[i]) = occupied(ents[i])
        /\ is_structure(ents[i]) => get_entity_rect(ents[i]) = footprint(ents[i])

\* try_build has just been rejected on a cell that a rock overlaps, with
\* wood in hand
C18_Witness ==
    /\ attempt # NoAttempt
    /\ attempt.wood >= WALL_WOOD_COST
    /\ \E i \in 1..Len(attempt.ents) :
          /\ attempt.ents[i].kind = "rock"
          /\ check_collision(attempt.rect, occupied(attempt.ents[i]))
    /\ wood = attempt.wood

\* try_build has been rejected on the cell of stairs, and one for want of wood
C18_WitnessStairs ==
    /\ attempt # NoAttempt
    /\ \E i \in 1..Len(attempt.ents) :
          /\ attempt.ents[i].kind = "stairs"
          /\ check_collision(attempt.rect, occupied(attempt.ents[i]))
    /\ Len(ents) = Len(attempt.ents)
----------------------------------------------------------------------------
\* SpecQuadTree (src/game.py: class QuadTree).  A node is known by its path
\* from the root: the indices into self.nodes on the way down; its level is
\* the length of its path.

max_objects == 2
max_levels == 2
MaxInserts == 4

\* a root whose sides halve to whole numbers down to the deepest level
RootBounds == <<0, 0, 16, 16>>

\* QuadTree.__init__
QuadTree(bounds) == [bounds |-> bounds, objects |-> << >>]

\* self.nodes is not empty
has_nodes(t, path) == Append(path, 1) \in DOMAIN t

\* QuadTree.split: top-left, top-right, bottom-left, bottom-right
split(t, path) ==
    LET x == t[path].bounds[1]
        y == t[path].bounds[2]
        half_w == t[path].bounds[3] \div 2
        half_h == t[path].bounds[4] \div 2
    IN  t @@ (Append(path, 1) :> QuadTree(<<x, y, half_w, half_h>>))
          @@ (Append(path, 2) :> QuadTree(<<x + half_w, y, half_w, half_h>>))
          @@ (Append(path, 3) :> QuadTree(<<x, y + half_h, half_w, half_h>>))
          @@ (Append(path, 4) :> QuadTree(<<x + half_w, y + half_h, half_w, half_h>>))

\* variant: only the rectangle's corner is tested
rect_fits_corner(rect, bounds) ==
    /\ rect[1] >= bounds[1]
    /\ rect[2] >= bounds[2]
    /\ rect[1] < bounds[1] + bounds[3]
    /\ rect[2] < bounds[2] + bounds[4]

\* QuadTree._rect_fits
rect_fits(rect, bounds) ==
    /\ rect[1] >= bounds[1]
    /\ rect[2] >= bounds[2]
    /\ rect[1] + rect[3] <= bounds[1] + bounds[3]
    /\ rect[2] + rect[4] <= bounds[2] + bounds[4]

\* the children of the node whose bounds the rectangle fits
fitting(t, path, rect) ==
    { idx \in 1..4 : rect_fits(rect, t[Append(path, idx)].bounds) }

\* the first of them, in the order of self.nodes
first_fitting(t, path, rect) ==
    CHOOSE idx \in fitting(t, path, rect) :
        \A other \in fitting(t, path, rect) : idx <= other

\* self.objects.pop(i)
pop(objects, i) ==
    [k \in 1..(Len(objects) - 1) |-> IF k < i THEN objects[k] ELSE objects[k + 1]]

RECURSIVE insert(_, _, _, _)
RECURSIVE redistribute(_, _, _)

\* the `while i < len(self.objects)` loop of insert, from index i on
redistribute(t, path, i) ==
    IF i > Len(t[path].objects) THEN t
    ELSE LET obj == t[path].objects[i]
         IN  IF fitting(t, path, obj[1]) # {}
             THEN redistribute(
                      insert([t EXCEPT ![path].objects = pop(@, i)],
                             Append(path, first_fitting(t, path, obj[1])),
                             obj[1], obj[2]),
                      path, i)
             ELSE redistribute(t, path, i + 1)

\* QuadTree.insert(rect, entity_id) on the node at path
insert(t, path, rect, entity_id) ==
    IF has_nodes(t, path) /\ fitting(t, path, rect) # {}
    THEN insert(t, Append(path, first_fitting(t, path, rect)), rect, entity_id)
    ELSE LET added == [t EXCEPT ![path].objects = Append(@, <<rect, entity_id>>)]
         IN  IF Len(added[path].objects) > max_objects /\ Len(path) < max_levels
             THEN redistribute(IF has_nodes(added, path) THEN added
                               ELSE split(added, path),
                               path, 1)
             ELSE added

\* QuadTree.retrieve(rect) on the node at path
RECURSIVE retrieve(_, _, _)
retrieve(t, path, rect) ==
    { t[path].objects[k][2] : k \in { k \in 1..Len(t[path].objects) :
                                        check_collision(rect, t[path].objects[k][1]) } }
    \cup
    UNION { retrieve(t, Append(path, idx), rect) :
              idx \in { idx \in 1..4 :
                          /\ has_nodes(t, path)
                          /\ check_collision(rect, t[Append(path, idx)].bounds) } }

\* Rectangles inside one deepest node, on node edges, across the split of a
\* child and of the root, covering most of the root, and partly outside it.
Rects ==
    { <<1, 1, 1, 1>>, <<6, 2, 2, 2>>, <<8, 0, 2, 2>>, <<3, 1, 2, 2>>,
      <<7, 7, 2, 2>>, <<2, 2, 12, 12>>, <<-1, 3, 3, 2>>, <<15, 15, 3, 3>> }

Queries ==
    Rects \cup { <<8, 8, 1, 1>>, <<0, 0, 16, 16>>, <<4, 4, 4, 4>>, <<-2, -2, 2, 2>>,
                 <<7, 0, 1, 16>>, <<0, 3, 1, 1>>, <<16, 16, 1, 1>> }

InitQuadTree ==
    /\ WorldIdle
    /\ OrderIdle
    /\ SyncIdle
    /\ attempt = NoAttempt
    /\ RestIdle
    /\ CombatIdle
    /\ HarvestIdle
    /\ DirectorIdle
    /\ pos = <<0, 0>>
    /\ wood = 0
    /\ ents = << >>
    /\ last_interact_pressed = FALSE
    /\ ticks = 0
    /\ vacated = {}
    /\ slideCase = NoSlide
    /\ reverted = NoRevert
    /\ penetrates = FALSE
    /\ frames = 1
    /\ nodes = (<< >> :> QuadTree(RootBounds))
    /\ inserted = << >>

othersUnchangedByQuadTree ==
    /\ UNCHANGED earlierVars
    /\ UNCHANGED <<worldVars, orderVars, syncVars, attempt, restVars>>

\* quadtree.insert(rect, entity_id) for the next entity
Insert(rect) ==
    /\ Len(inserted) < MaxInserts
    /\ nodes' = insert(nodes, << >>, rect, Len(inserted) + 1)
    /\ inserted' = Append(inserted, rect)
    /\ othersUnchangedByQuadTree

\* QuadTree.clear
Clear ==
    /\ inserted # << >>
    /\ nodes' = (<< >> :> QuadTree(RootBounds))
    /\ inserted' = << >>
    /\ othersUnchangedByQuadTree

NextQuadTree ==
    \/ \E rect \in Rects : Insert(rect)
    \/ Clear

SpecQuadTree == InitQuadTree /\ [][NextQuadTree]_vars

\* the scan over everything inserted
brute_force(rect) ==
    { id \in 1..Len(inserted) : check_collision(rect, inserted[id]) }

\* C20: after any sequence of inserts, for every query rectangle, retrieve
\* returns exactly the ids whose inserted rectangle overlaps the query, the
\* set a scan with check_collision gives.
C20_RetrieveIsExact ==
    \A rect \in Queries : retrieve(nodes, << >>, rect) = brute_force(rect)

\* a node at the deepest level holds more than max_objects objects, while the
\* root keeps a rectangle that fits none of its children
C20_Witness ==
    /\ \E path \in DOMAIN nodes :
          /\ Len(path) = max_levels
          /\ Len(nodes[path].objects) > max_objects
    /\ nodes[<< >>].objects # << >>
----------------------------------------------------------------------------
\* SpecQueue: the inbound queue between the reader thread and the
\* simulation thread (src/game.py: NetworkManager.receive_data_non_blocking
\* and the `with self.receive_lock` block of _receive_thread).  The k-th
\* message the reader decodes is the number k.  Each step is one bytecode-level
\* operation on the list or the lock.

MaxDecoded == 3

\* variant: the lock is taken whoever holds it
acquire_unguarded(lock) == TRUE

\* threading.Lock.acquire returns once the lock is free
acquire(lock) == lock = "free"

InitQueue ==
    /\ LaterIdle
    /\ CombatIdle
    /\ HarvestIdle
    /\ NetIdle
    /\ pos = <<0, 0>>
    /\ wood = 0
    /\ ents = << >>
    /\ last_interact_pressed = FALSE
    /\ ticks = 0
    /\ vacated = {}
    /\ slideCase = NoSlide
    /\ reverted = NoRevert
    /\ penetrates = FALSE
    /\ frames = 1
    /\ role \in NetRoles
    /\ connected = TRUE
    /\ is_night = FALSE
    /\ cycle_time = 0
    /\ day_count = 1
    /\ enemy_spawn_timer = 0
    /\ enemy_count = 0

othersUnchangedByQueue ==
    /\ UNCHANGED <<stream, wire, pending_data, enqueued, split_frames, prefixes>>
    /\ UNCHANGED <<ents, ticks, frames>>
    /\ UNCHANGED moveVars
    /\ UNCHANGED combatVars
    /\ UNCHANGED harvestVars
    /\ UNCHANGED directorVars
    /\ UNCHANGED <<worldVars, orderVars, syncVars, treeVars, attempt>>
    /\ UNCHANGED <<stopVars, moreVars>>

\* the reader: message = json.loads(data_bytes.decode('utf-8'))
Decode ==
    /\ reader_pc = "recv"
    /\ decoded < MaxDecoded
    /\ decoded' = decoded + 1
    /\ reader_pc' = "acquire"
    /\ UNCHANGED <<receive_lock, received_messages, drain_pc, drained, delivered>>
    /\ othersUnchangedByQueue

\* the reader: with self.receive_lock:
ReaderAcquires ==
    /\ reader_pc = "acquire"
    /\ acquire(receive_lock)
    /\ receive_lock' = "reader"
    /\ reader_pc' = "append"
    /\ UNCHANGED <<decoded, received_messages, drain_pc, drained, delivered>>
    /\ othersUnchangedByQueue

\* the reader: self.received_messages.append(message)
ReaderAppends ==
    /\ reader_pc = "append"
    /\ received_messages' = Append(received_messages, decoded)
    /\ reader_pc' = "release"
    /\ UNCHANGED <<decoded, receive_lock, drain_pc, drained, delivered>>
    /\ othersUnchangedByQueue

\* the reader leaves the with block
ReaderReleases ==
    /\ reader_pc = "release"
    /\ receive_lock' = "free"
    /\ reader_pc' = "recv"
    /\ UNCHANGED <<decoded, received_messages, drain_pc, drained, delivered>>
    /\ othersUnchangedByQueue

\* receive_data_non_blocking: messages = []; with self.receive_lock:
DrainAcquires ==
    /\ drain_pc = "idle"
    /\ acquire(receive_lock)
    /\ receive_lock' = "simulation"
    /\ drained' = << >>
    /\ drain_pc' = "test"
    /\ UNCHANGED <<decoded, reader_pc, received_messages, delivered>>
    /\ othersUnchangedByQueue

\* if self.received_messages: messages = self.received_messages[:]
DrainCopies ==
    /\ drain_pc = "test"
    /\ IF received_messages # << >>
       THEN /\ drained' = received_messages
            /\ drain_pc' = "clear"
       ELSE /\ drained' = drained
            /\ drain_pc' = "release"
    /\ UNCHANGED <<decoded, reader_pc, receive_lock, received_messages, delivered>>
    /\ othersUnchangedByQueue

\* self.received_messages.clear()
DrainClears ==
    /\ drain_pc = "clear"
    /\ received_messages' = << >>
    /\ drain_pc' = "release"
    /\ UNCHANGED <<decoded, reader_pc, receive_lock, drained, delivered>>
    /\ othersUnchangedByQueue

\* the with block ends; return messages
DrainReturns ==
    /\ drain_pc = "release"
    /\ receive_lock' = "free"
    /\ delivered' = delivered \o drained
    /\ drain_pc' = "idle"
    /\ UNCHANGED <<decoded, reader_pc, received_messages, drained>>
    /\ othersUnchangedByQueue

NextQueue ==
    \/ Decode
    \/ ReaderAcquires
    \/ ReaderAppends
    \/ ReaderReleases
    \/ DrainAcquires
    \/ DrainCopies
    \/ DrainClears
    \/ DrainReturns

SpecQueue == InitQueue /\ [][NextQueue]_vars

\* the messages 1 .. n in the order of their decoding
in_order(n) == [k \in 1..n |-> k]

\* C22: under every interleaving of the reader's appends and the simulation's
\* drains, the drains return the decoded messages once each and in the order
\* of decoding (whenever neither thread is inside its with block, what was
\* returned followed by what is queued is the messages decoded so far), and
\* the queue changes only while the lock is held.
C22_DrainsLoseNothing ==
    /\ []( (reader_pc = "recv" /\ drain_pc = "idle") =>
             delivered \o received_messages = in_order(decoded) )
    /\ []( \A i \in DOMAIN delivered : delivered[i] = i )
    /\ [][ received_messages' # received_messages =>
             /\ receive_lock # "free"
             /\ receive_lock' = receive_lock
             /\ (Len(received_messages') > Len(received_messages)) =
                   (receive_lock = "reader") ]_vars

\* the reader waits for the lock while a drain has copied the queue and has
\* not cleared it yet, and an earlier drain has returned a message
C22_Witness ==
    /\ reader_pc = "acquire"
    /\ receive_lock = "simulation"
    /\ drain_pc = "clear"
    /\ delivered # << >>
\* the length of the running phase, in frames
phase_length(night) == IF night THEN NIGHT_LENGTH * FPS ELSE DAY_LENGTH * FPS

\* C29: the clock alternates day, night, day, ...: the phase switches in
\* exactly the updates in which cycle_time has reached DAY_LENGTH (by day)
\* or NIGHT_LENGTH (by night), cycle_time is 0 after a switch and grows by
\* dt otherwise, and day_count grows by exactly 1 at each switch from night
\* to day and at no other time.
C29_PhaseClock ==
    [][ ticks' # ticks =>
          /\ (is_night' # is_night) <=> (cycle_time + frames >= phase_length(is_night))
          /\ (is_night' # is_night) => cycle_time' = 0
          /\ (is_night' = is_night) => cycle_time' = cycle_time + frames
          /\ day_count' = IF is_night /\ ~is_night' THEN day_count + 1 ELSE day_count
      ]_vars

C29_Witness ==
    /\ day_count = 3
    /\ ~is_night
    /\ cycle_time = 0
    /\ ticks * frames = 2 * (DAY_LENGTH + NIGHT_LENGTH) * FPS

----------------------------------------------------------------------------
\* SpecStop: the life of the reader thread and of the sockets
\* (src/game.py: NetworkManager.start_host, accept_client, connect_to_host,
\* start_receive_thread, _receive_thread, close; GameWindow.check_connection,
\* GameWindow.on_close).

MaxRecvs == 2
MaxOrphans == 1

\* the socket the reader thread and send_data use
socket_to_use == IF role = "host" THEN client_socket ELSE socket

\* After GameWindow.__init__ of a multiplayer game: start_host has bound the
\* listening socket, or connect_to_host has connected and started the reader.
InitStop ==
    /\ WorldIdle
    /\ OrderIdle
    /\ SyncIdle
    /\ TreeIdle
    /\ attempt = NoAttempt
    /\ QueueIdle
    /\ MoreIdle
    /\ CombatIdle
    /\ HarvestIdle
    /\ NetIdle
    /\ pos = <<0, 0>>
    /\ wood = 0
    /\ ents = << >>
    /\ last_interact_pressed = FALSE
    /\ ticks = 0
    /\ vacated = {}
    /\ slideCase = NoSlide
    /\ reverted = NoRevert
    /\ penetrates = FALSE
    /\ frames = 1
    /\ role \in NetRoles
    /\ connected = (role = "client")
    /\ is_night = FALSE
    /\ cycle_time = 0
    /\ day_count = 1
    /\ enemy_spawn_timer = 0
    /\ enemy_count = 0
    /\ running = TRUE
    /\ receive_thread = IF role = "client" THEN "test" ELSE "none"
    /\ socket = "open"
    /\ client_socket = "none"
    /\ window = "open"
    /\ checking = (role = "host")
    /\ lost = FALSE
    /\ recvs = 0
    /\ orphans = 0

othersUnchangedByStop ==
    /\ UNCHANGED <<role, is_night, cycle_time, day_count, enemy_spawn_timer,
                   enemy_count>>
    /\ UNCHANGED <<ents, ticks, frames>>
    /\ UNCHANGED moveVars
    /\ UNCHANGED combatVars
    /\ UNCHANGED harvestVars
    /\ UNCHANGED netVars
    /\ UNCHANGED <<worldVars, orderVars, syncVars, treeVars, attempt, queueVars,
                   moreVars>>

\* NetworkManager.start_receive_thread
start_receive_thread(thread) ==
    IF thread \in {"none", "done"} THEN "test" ELSE thread

\* GameWindow.check_connection, scheduled every 0.1 s for as long as it finds
\* the network not connected; accept_client finds a client in the backlog or
\* times out, and raises (caught) on a closed listening socket.
CheckConnection(client_waits) ==
    /\ checking
    /\ IF connected
       THEN /\ checking' = FALSE
            /\ UNCHANGED <<connected, client_socket, receive_thread, orphans>>
       ELSE /\ checking' = TRUE
            /\ IF role = "host" /\ socket = "open" /\ client_waits
               THEN /\ client_socket' = "open"
                    /\ orphans' = orphans + (IF client_socket = "open" THEN 1 ELSE 0)
                    /\ connected' = TRUE
                    /\ receive_thread' = start_receive_thread(receive_thread)
               ELSE UNCHANGED <<connected, client_socket, receive_thread, orphans>>
    /\ orphans' <= MaxOrphans
    /\ UNCHANGED <<running, socket, window, lost, recvs>>
    /\ othersUnchangedByStop

\* _receive_thread: while self.running and self.connected
ReaderTests ==
    /\ receive_thread = "test"
    /\ receive_thread' = IF running /\ connected THEN "recv" ELSE "done"
    /\ UNCHANGED <<connected, running, socket, client_socket, window, checking,
                   lost, recvs, orphans>>
    /\ othersUnchangedByStop

\* _receive_thread: chunk = socket_to_use.recv(4096).  On a socket closed by
\* close() recv raises; on an open one it returns a chunk, times out, or
\* fails or returns b'' because the peer is gone.
ReaderRecvs(outcome) ==
    /\ receive_thread = "recv"
    /\ IF socket_to_use # "open"
       THEN /\ connected' = FALSE
            /\ receive_thread' = "done"
            /\ UNCHANGED <<lost, recvs>>
       ELSE IF outcome = "chunk"
       THEN /\ recvs < MaxRecvs
            /\ recvs' = recvs + 1
            /\ receive_thread' = "test"
            /\ UNCHANGED <<connected, lost>>
       ELSE IF outcome = "timeout"
       THEN /\ receive_thread' = "test"
            /\ UNCHANGED <<connected, lost, recvs>>
       ELSE /\ connected' = FALSE
            /\ lost' = TRUE
            /\ receive_thread' = "done"
            /\ UNCHANGED recvs
    /\ UNCHANGED <<running, socket, client_socket, window, checking, orphans>>
    /\ othersUnchangedByStop

\* send_data in GameWindow.update: sendall raises, self.connected = False
SendFails ==
    /\ window = "open"
    /\ connected
    /\ connected' = FALSE
    /\ lost' = TRUE
    /\ UNCHANGED <<running, receive_thread, socket, client_socket, window,
                   checking, recvs, orphans>>
    /\ othersUnchangedByStop

\* socket.close() of a socket attribute
closed(s) == IF s = "none" THEN "none" ELSE "closed"

\* GameWindow.on_close: self.network.close()
CloseWindow ==
    /\ window = "open"
    /\ window' = "closed"
    /\ running' = FALSE
    /\ connected' = FALSE
    /\ client_socket' = closed(client_socket)
    /\ socket' = closed(socket)
    /\ UNCHANGED <<receive_thread, checking, lost, recvs, orphans>>
    /\ othersUnchangedByStop

NextStop ==
    \/ \E client_waits \in BOOLEAN : CheckConnection(client_waits)
    \/ ReaderTests
    \/ \E outcome \in {"chunk", "timeout", "lost"} : ReaderRecvs(outcome)
    \/ SendFails
    \/ CloseWindow

\* The reader thread is scheduled again and again, and its recv returns
\* (the sockets have timeouts); nothing makes the user close the window or a
\* client connect.
SpecStop ==
    /\ InitStop
    /\ [][NextStop]_vars
    /\ WF_vars(ReaderTests)
    /\ WF_vars(\E outcome \in {"chunk", "timeout", "lost"} : ReaderRecvs(outcome))

\* C23 (as claimed): once the window has been closed or the socket has been
\* lost, the reader thread eventually terminates and the sockets of the
\* NetworkManager are closed.
C23_StoppedAndReleased ==
    (window = "closed" \/ lost) ~>
        /\ receive_thread \in {"none", "done"}
        /\ socket # "open"
        /\ client_socket # "open"
        /\ orphans = 0

\* C35 (as claimed): once connected has turned False after a session was
\* established (the peer was lost or a send failed), it is never True again:
\* there is no reconnection, so GameWindow.update, which sends and applies
\* messages only while connected, does neither from then on.
C35_NoReconnection == lost => ~connected

----------------------------------------------------------------------------
\* StairsSystem (src/game.py: StairsSystem.update, create_stairs)

create_stairs(x, y, direction_x, direction_y, from_level, to_level) ==
    [kind |-> "stairs", x |-> x, y |-> y, w |-> WALL_SIZE,
     direction_x |-> direction_x, direction_y |-> direction_y,
     from_level |-> from_level, to_level |-> to_level]

stairs_rect(s) == << s.x - s.w \div 2, s.y - s.w \div 2, s.w, s.w >>

\* "Check players on stairs", one stairs entity: twice the dot product of the
\* stairs direction with the vector from the stairs position to the centre
\* of the player decides between going up and going down.
player_on_stairs(p, s) ==
    IF ~check_collision(player_rect(<<p.x, p.y>>), stairs_rect(s))
          \/ (s.direction_x = 0 /\ s.direction_y = 0)
    THEN p
    ELSE IF (2 * p.x + PLAYER_SIZE - 2 * s.x) * s.direction_x
               + (2 * p.y + PLAYER_SIZE - 2 * s.y) * s.direction_y > 0
    THEN IF p.level = s.from_level THEN [p EXCEPT !.level = s.to_level] ELSE p
    ELSE IF p.level = s.to_level THEN [p EXCEPT !.level = s.from_level] ELSE p

\* "Check enemies on stairs", one stairs entity: an enemy on the footprint
\* swaps from_level and to_level.
enemy_on_stairs(e, s) ==
    IF ~check_collision(enemy_rect(e), stairs_rect(s)) THEN e
    ELSE IF e.level = s.from_level THEN [e EXCEPT !.level = s.to_level]
    ELSE IF e.level = s.to_level THEN [e EXCEPT !.level = s.from_level]
    ELSE e

\* the inner loops over the stairs entities, in entity order
RECURSIVE over_stairs(_, _, _, _)
over_stairs(a, es, i, is_player) ==
    IF i > Len(es) THEN a
    ELSE IF es[i].kind # "stairs" THEN over_stairs(a, es, i + 1, is_player)
    ELSE over_stairs(IF is_player THEN player_on_stairs(a, es[i])
                     ELSE enemy_on_stairs(a, es[i]),
                     es, i + 1, is_player)

\* StairsSystem.update
stairs_update(pls, es, world_ents) ==
    [ players |-> [ k \in 1..Len(pls) |-> over_stairs(pls[k], world_ents, 1, TRUE) ],
      enemies |-> [ j \in 1..Len(es) |->
                      IF es[j].present THEN over_stairs(es[j], world_ents, 1, FALSE)
                      ELSE es[j] ] ]

\* One World.update of a world with stairs: MovementSystem, EnemyAISystem,
\* StairsSystem, and the "Enemy vs Player" test of CollisionSystem.
stairs_after_moves(pls, es, indexed, world_ents) ==
    [ players |-> stairs_update(pls, es, world_ents).players,
      enemies |-> stairs_update(pls, es, world_ents).enemies,
      game_over |-> enemy_hits_player(stairs_update(pls, es, world_ents).players,
                                      stairs_update(pls, es, world_ents).enemies,
                                      indexed, {}) ]

stairs_world_moved(pls, es, world_ents, dt) ==
    stairs_after_moves(pls,
        enemy_ai_update(es, es, world_ents, 1,
                        player_center(<<pls[1].x, pls[1].y>>), dt),
        es, world_ents)

stairs_world_update(pls, es, world_ents, mx, my, dt) ==
    stairs_world_moved(move_players(pls, world_ents, mx, my, dt), es, world_ents, dt)

----------------------------------------------------------------------------
\* SpecStairs: the player has just built stairs under its feet (try_build
\* puts them on the grid cell of its centre; the nearest higher entity, a
\* rock far to the right on the same grid row, gives them the direction
\* (1, 0) and the levels 0 -> 1), and an enemy walks up from the left.

MaxStairsTicks == 3

StairsFrames == { 2 }

StairsPlayerStarts == { <<1000, 990>>, <<985, 990>> }

StairsEnemyStarts == { <<962, 992>>, <<930, 992>> }

InitStairs ==
    /\ LaterIdle
    /\ HarvestIdle
    /\ DirectorIdle
    /\ pos = <<0, 0>>
    /\ wood = 0
    /\ last_interact_pressed = FALSE
    /\ ticks = 0
    /\ vacated = {}
    /\ slideCase = NoSlide
    /\ reverted = NoRevert
    /\ penetrates = FALSE
    /\ frames \in StairsFrames
    /\ \E p \in StairsPlayerStarts :
          /\ players = << create_player(p[1], p[2], 1, 0) >>
          /\ ents = << create_stairs(snap_to_grid(player_center(p)[1], player_center(p)[2])[1],
                                     snap_to_grid(player_center(p)[1], player_center(p)[2])[2],
                                     1, 0, 0, 1) >>
    /\ \E s \in StairsEnemyStarts :
          enemies = << create_enemy(s[1], s[2], 0, TRUE) >>
    /\ projectiles = << >>
    /\ game_active = TRUE
    /\ lethal = {}
    /\ snap = NoSnap

StairsTick(mx, my) ==
    /\ game_active
    /\ ticks < MaxStairsTicks
    /\ \E w \in { stairs_world_update(players, enemies, ents, mx, my, frames) } :
          /\ players' = w.players
          /\ enemies' = w.enemies
          /\ game_active' = ~w.game_over
    /\ ticks' = ticks + 1
    /\ UNCHANGED <<ents, frames, projectiles, lethal, snap>>
    /\ UNCHANGED moveVars
    /\ UNCHANGED harvestVars
    /\ UNCHANGED directorVars
    /\ UNCHANGED netVars
    /\ UNCHANGED laterVars

NextStairs == \E mx \in {-1, 0, 1}, my \in {-1, 0, 1} : StairsTick(mx, my)

SpecStairs == InitStairs /\ [][NextStairs]_vars

----------------------------------------------------------------------------
\* Claims on stairs

\* the displacement of an actor in a tick along the direction of the stairs
along(a, b, s) == (b.x - a.x) * s.direction_x + (b.y - a.y) * s.direction_y

\* an actor was a before the tick and is b after it, with the rectangle rect
level_follows_motion(a, b, rect, s) ==
    /\ (a.level = s.from_level /\ b.level = s.to_level) => along(a, b, s) > 0
    /\ (a.level = s.to_level /\ b.level = s.from_level) => along(a, b, s) < 0
    /\ (check_collision(rect, stairs_rect(s)) /\ along(a, b, s) = 0)
          => b.level = a.level
    /\ b.level # a.level
          => /\ check_collision(rect, stairs_rect(s))
             /\ {a.level, b.level} = {s.from_level, s.to_level}

\* C26 (as claimed): a player or an enemy on a stairs footprint goes from
\* from_level to to_level only in a tick in which it moves with a positive
\* dot product along the stairs direction, and back only on reverse motion;
\* on the stairs without motion along the axis it keeps its level; levels
\* change in no other way.
C26_LevelFollowsMotion ==
    [][ \A i \in 1..Len(ents) :
          ents[i].kind = "stairs" =>
             /\ \A k \in 1..Len(players) :
                   level_follows_motion(players[k], players'[k],
                       player_rect(<<players'[k].x, players'[k].y>>), ents[i])
             /\ \A j \in 1..Len(enemies) :
                   level_follows_motion(enemies[j], enemies'[j],
                       enemy_rect(enemies'[j]), ents[i])
      ]_vars
----------------------------------------------------------------------------
\* CollisionSystem, "Projectile vs Obstacles", with or without the spatial
\* index (src/game.py: CollisionSystem.update, gather_world_obstacles)

\* gather_world_obstacles: the obstacles of the World as it is now
gather_world_obstacles(es) == SelectSeq(es, is_obstacle)

\* nearby_obstacles of a projectile: the entities that the index built at the
\* start of the tick (from indexed) returns for its rectangle, or, without an
\* index, all the obstacles of the World
nearby_obstacles(use_spatial, indexed, es, rect) ==
    IF use_spatial THEN query_obstacles(indexed, rect, 1)
    ELSE gather_world_obstacles(es)

\* "for obs in nearby_obstacles: ... break": the candidates the loop tests
first_candidates(obs) == IF Len(obs) > 0 THEN {1} ELSE {}

\* the projectiles that "Projectile vs Obstacles" marks
projectile_vs_obstacles(ps, use_spatial, indexed, es) ==
    { i \in 1..Len(ps) :
        /\ ps[i].present
        /\ \E k \in first_candidates(
                        nearby_obstacles(use_spatial, indexed, es, proj_rect(ps[i]))) :
              check_collision(proj_rect(ps[i]),
                  get_entity_rect(
                      nearby_obstacles(use_spatial, indexed, es, proj_rect(ps[i]))[k])) }

\* the end of World.update: the projectiles that ProjectileSystem or
\* CollisionSystem marked leave the World
remove_projectiles(ps, marked) ==
    [ i \in 1..Len(ps) |->
        IF ps[i].present /\ (i \in marked \/ off_world(ps[i]))
        THEN [ps[i] EXCEPT !.present = FALSE] ELSE ps[i] ]

\* One World.update of a world of one player, obstacles, structures and
\* projectiles: MovementSystem, ProjectileSystem, WallSystem, CollisionSystem
\* and the removals.
shots_collided(p, ps, use_spatial, indexed, es) ==
    [ pos |-> p, ents |-> es,
      projectiles |-> remove_projectiles(ps,
                          projectile_vs_obstacles(ps, use_spatial, indexed, es)) ]

shots_world_update(p, ps, use_spatial, es, mx, dt) ==
    shots_collided(move_player(es, p, mx, 0, dt).pos, projectile_update(ps),
                   use_spatial, es,
                   wall_system_update(es, move_player(es, p, mx, 0, dt).pos))

----------------------------------------------------------------------------
\* SpecShots: the player stands on a wall it has just built, with a rock
\* further right, while one projectile is in flight; the World has a
\* spatial index (as GameWindow sets it up) or none (as World() leaves it).

MaxShotTicks == 3

ShotFrames == { 12 }

ShotStart == <<1000, 990>>

ShotEnts == << create_rock(1080, 990, GRID_SIZE), create_structure("wall", 1005, 1005) >>

ShotProjectileStarts == { <<1010, 1000>>, <<1040, 1000>>, <<1010, 960>> }

ShotVelocities == { <<PROJECTILE_SPEED, 0>>, <<-PROJECTILE_SPEED, 0>>,
                    <<0, PROJECTILE_SPEED>> }

InitShots ==
    /\ WorldIdle
    /\ OrderIdle
    /\ SyncIdle
    /\ TreeIdle
    /\ attempt = NoAttempt
    /\ QueueIdle
    /\ StopIdle
    /\ HarvestIdle
    /\ DirectorIdle
    /\ pos = ShotStart
    /\ wood = 0
    /\ ents = ShotEnts
    /\ last_interact_pressed = FALSE
    /\ ticks = 0
    /\ vacated = {}
    /\ slideCase = NoSlide
    /\ reverted = NoRevert
    /\ penetrates = FALSE
    /\ frames \in ShotFrames
    /\ players = << >>
    /\ enemies = << >>
    /\ \E s \in ShotProjectileStarts, v \in ShotVelocities :
          projectiles = << create_projectile(s[1], s[2], v[1], v[2], 1) >>
    /\ game_active = TRUE
    /\ lethal = {}
    /\ snap = NoSnap
    /\ spatial \in BOOLEAN
    /\ ExtraIdle

ShotsTick(mx) ==
    /\ ticks < MaxShotTicks
    /\ \E w \in { shots_world_update(pos, projectiles, spatial, ents, mx, frames) } :
          /\ pos' = w.pos
          /\ ents' = w.ents
          /\ projectiles' = w.projectiles
    /\ ticks' = ticks + 1
    /\ UNCHANGED <<wood, last_interact_pressed, vacated, slideCase, reverted,
                   penetrates, frames>>
    /\ UNCHANGED <<players, enemies, game_active, lethal, snap>>
    /\ UNCHANGED harvestVars
    /\ UNCHANGED directorVars
    /\ UNCHANGED netVars
    /\ UNCHANGED laterVars

NextShots == \E mx \in {-1, 0, 1} : ShotsTick(mx)

SpecShots == InitShots /\ [][NextShots]_vars

\* C27 (as claimed): every projectile whose rectangle overlaps the collision
\* rectangle of a solid obstacle when CollisionSystem runs is marked in that
\* tick, so it has left the World when the tick ends, with the spatial index
\* and with the fallback.
C27_OverlapIsMarked ==
    ticks > 0 =>
        \A i \in 1..Len(projectiles) :
            projectiles[i].present =>
                ~\E k \in 1..Len(ents) :
                    /\ is_obstacle(ents[k])
                    /\ check_collision(proj_rect(projectiles[i]),
                                       get_entity_rect(ents[k]))
----------------------------------------------------------------------------
\* The flight of a projectile (src/game.py: GameWindow.try_shoot,
\* create_projectile, ProjectileSystem.update)
\*
\* Velocities are in whole pixels per tick, cut towards zero.

\* Variant: the projectile gets the player's velocity only.
projectile_velocity_inherited(direction_x, direction_y, per_frame_x, per_frame_y) ==
    << per_frame_x, per_frame_y >>

\* create_projectile: PROJECTILE_SPEED along the normalised direction (straight
\* up for a zero direction), plus the player's velocity per frame
projectile_velocity(direction_x, direction_y, per_frame_x, per_frame_y) ==
    IF direction_x = 0 /\ direction_y = 0
    THEN << per_frame_x, PROJECTILE_SPEED + per_frame_y >>
    ELSE << quot(normalize(direction_x, direction_y)[1] * PROJECTILE_SPEED, 100)
               + per_frame_x,
            quot(normalize(direction_x, direction_y)[2] * PROJECTILE_SPEED, 100)
               + per_frame_y >>

\* GameWindow.try_shoot once the fire-rate test has passed, with the arrow
\* keys giving the direction (dir_x, dir_y): the projectiles of the World.
\* m is the outcome of this update's _move_player, dt its frame time.
fire(ps, m, dir_x, dir_y, owner_id, dt) ==
    IF dir_x = 0 /\ dir_y = 0 THEN ps
    ELSE Append(ps,
           create_projectile(
               player_center(m.pos)[1] - PROJECTILE_SIZE \div 2,
               player_center(m.pos)[2] - PROJECTILE_SIZE \div 2,
               projectile_velocity(dir_x * 100, dir_y * 100,
                                   quot(m.velocity[1], dt), quot(m.velocity[2], dt))[1],
               projectile_velocity(dir_x * 100, dir_y * 100,
                                   quot(m.velocity[1], dt), quot(m.velocity[2], dt))[2],
               owner_id))

\* One GameWindow.update: World.update (MovementSystem, ProjectileSystem and
\* the removals), then try_shoot.
flight_update(p, ps, es, mx, dir_x, dir_y, dt) ==
    [ pos |-> move_player(es, p, mx, 0, dt).pos,
      projectiles |-> fire(remove_projectiles(projectile_update(ps), {}),
                           move_player(es, p, mx, 0, dt), dir_x, dir_y, 1, dt) ]

----------------------------------------------------------------------------
\* SpecFlight: a single-player game on open ground near the right edge of
\* the world.  The player walks (A, D or no key) and shoots once in one of the
\* eight directions; then the keys are released and the projectile flies.

MaxAimTicks == 1

FlightFrames == { 2 }

FlightStarts == { <<3950, 1500>>, <<3985, 2985>> }

InitFlight ==
    /\ LaterIdle
    /\ HarvestIdle
    /\ DirectorIdle
    /\ pos \in FlightStarts
    /\ wood = 0
    /\ ents = << >>
    /\ last_interact_pressed = FALSE
    /\ ticks = 0
    /\ vacated = {}
    /\ slideCase = NoSlide
    /\ reverted = NoRevert
    /\ penetrates = FALSE
    /\ frames \in FlightFrames
    /\ players = << >>
    /\ enemies = << >>
    /\ projectiles = << >>
    /\ game_active = TRUE
    /\ lethal = {}
    /\ snap = NoSnap

in_flight(ps) == \E i \in 1..Len(ps) : ps[i].present

FlightTick(mx, dir_x, dir_y) ==
    /\ in_flight(projectiles) \/ ticks < MaxAimTicks
    /\ (mx # 0 \/ dir_x # 0 \/ dir_y # 0)
          => (projectiles = << >> /\ ticks < MaxAimTicks)
    /\ \E w \in { flight_update(pos, projectiles, ents, mx, dir_x, dir_y, frames) } :
          /\ pos' = w.pos
          /\ projectiles' = w.projectiles
    /\ ticks' = IF ticks < MaxAimTicks THEN ticks + 1 ELSE ticks
    /\ UNCHANGED <<ents, wood, last_interact_pressed, vacated, slideCase, reverted,
                   penetrates, frames>>
    /\ UNCHANGED <<players, enemies, game_active, lethal, snap>>
    /\ UNCHANGED harvestVars
    /\ UNCHANGED directorVars
    /\ UNCHANGED netVars
    /\ UNCHANGED laterVars

NextFlight ==
    \E mx \in {-1, 0, 1}, dir_x \in {-1, 0, 1}, dir_y \in {-1, 0, 1} :
        FlightTick(mx, dir_x, dir_y)

\* pyglet calls GameWindow.update at every frame of a running game.
SpecFlight == InitFlight /\ [][NextFlight]_vars /\ WF_vars(NextFlight)

\* C28: every projectile is eventually destroyed.  Each tick advances it by
\* its (dx, dy); it leaves the World in the tick in which its position comes
\* to lie more than PROJECTILE_SIZE outside the world bounds, and not before.
C28_EventuallyDestroyed ==
    /\ \A i \in 1..MaxAimTicks :
          (Len(projectiles) >= i /\ projectiles[i].present)
              ~> (Len(projectiles) >= i /\ ~projectiles[i].present)
    /\ [](\A i \in 1..Len(projectiles) :
              projectiles[i].present <=> ~off_world(projectiles[i]))
    /\ [][ \A i \in 1..Len(projectiles) :
              projectiles[i].present =>
                 /\ projectiles'[i].x = projectiles[i].x + projectiles[i].dx
                 /\ projectiles'[i].y = projectiles[i].y + projectiles[i].dy
         ]_vars

C28_Witness ==
    /\ Len(projectiles) = 1
    /\ ~projectiles[1].present
    /\ projectiles[1].x < -PROJECTILE_SIZE
    /\ projectiles[1].dx < 0
    /\ projectiles[1].dy = 0
----------------------------------------------------------------------------
\* SpecHerd: enemies walk towards a standing player past the corner of a
\* rock, on headings that are not along an axis (EnemyAISystem.update).

MaxHerdTicks == 3

HerdFrames == { 2 }

HerdRocks == << create_rock(190, 140, GRID_SIZE) >>

\* the centre of the player, who stands still at (300, 250)
HerdTarget == player_center(<<300, 250>>)

HerdStartXs == 160..166
HerdStartYs == 108..116

SecondHerdStart == <<120, 150>>

InitHerd ==
    /\ LaterIdle
    /\ HarvestIdle
    /\ DirectorIdle
    /\ pos = <<0, 0>>
    /\ wood = 0
    /\ ents = HerdRocks
    /\ last_interact_pressed = FALSE
    /\ ticks = 0
    /\ vacated = {}
    /\ slideCase = NoSlide
    /\ reverted = NoRevert
    /\ penetrates = FALSE
    /\ frames \in HerdFrames
    /\ players = << create_player(300, 250, 1, 0) >>
    /\ \E x \in HerdStartXs, y \in HerdStartYs, second \in BOOLEAN :
          enemies = << create_enemy(x, y, 0, TRUE),
                       create_enemy(SecondHerdStart[1], SecondHerdStart[2], 0, second) >>
    /\ projectiles = << >>
    /\ game_active = TRUE
    /\ lethal = {}
    /\ snap = NoSnap

\* One World.update with no key held: the enemies move; they stay far from
\* the player and nothing else changes.
HerdTick ==
    /\ ticks < MaxHerdTicks
    /\ enemies' = enemy_ai_update(enemies, enemies, ents, 1, HerdTarget, frames)
    /\ ticks' = ticks + 1
    /\ UNCHANGED <<ents, frames, players, projectiles, game_active, lethal, snap>>
    /\ UNCHANGED moveVars
    /\ UNCHANGED harvestVars
    /\ UNCHANGED directorVars
    /\ UNCHANGED netVars
    /\ UNCHANGED laterVars

NextHerd == HerdTick

SpecHerd == InitHerd /\ [][NextHerd]_vars

\* no enemy overlaps an obstacle or another enemy
no_overlap(es, obs_ents) ==
    \A j \in 1..Len(es) :
        es[j].present =>
            /\ ~\E k \in 1..Len(obs_ents) :
                  /\ is_obstacle(obs_ents[k])
                  /\ check_collision(enemy_rect(es[j]), get_entity_rect(obs_ents[k]))
            /\ ~\E i \in 1..Len(es) :
                  /\ i # j
                  /\ es[i].present
                  /\ check_collision(enemy_rect(es[j]), enemy_rect(es[i]))

\* C30 (as claimed): the moves of EnemyAISystem create no overlap: when no
\* enemy overlaps an obstacle or another enemy before the enemies move, none
\* does after they have moved, whether an enemy moved directly, along one
\* axis or along the perpendicular probe.
C30_NoNewOverlap ==
    [][ no_overlap(enemies, ents) => no_overlap(enemies', ents') ]_vars
----------------------------------------------------------------------------
\* SpecSpawn: the encounter director calls spawn_enemy_ecs with the
\* obstacle-layer entities of the World, for a player standing at different
\* places to the west of a tree, a wall, a rock and a chopped tree.

SCREEN_WIDTH == 800
SCREEN_HEIGHT == 600

max_attempts == 50

MaxSpawns == 1

spawn_distance == Max2(SCREEN_WIDTH, SCREEN_HEIGHT) + 100

\* random.uniform(0, 2 * pi): the angles 0, pi/2, pi and 3pi/2, as the unit
\* vector <<cos, sin>>
SpawnAngles == { <<1, 0>>, <<0, 1>>, <<-1, 0>>, <<0, -1>> }

\* random.randint(0, WORLD_WIDTH) and random.randint(0, WORLD_HEIGHT) of the
\* world-edge spawn
EdgeDraws == { 0, 1000 }

\* the candidate sampled at angle a around the player's centre c, clamped
\* into the world
sample(c, a) ==
    << Max2(ENEMY_SIZE, Min2(WORLD_WIDTH - ENEMY_SIZE, c[1] + a[1] * spawn_distance)),
       Max2(ENEMY_SIZE, Min2(WORLD_HEIGHT - ENEMY_SIZE, c[2] + a[2] * spawn_distance)) >>

\* the rectangle that the loop over the obstacles tests the candidate
\* against: position and size as they are stored
stored_rect(obs) == << obs.x, obs.y, obs.w, obs.w >>

\* "valid": the candidate's rectangle meets the stored rectangle of no
\* obstacle but a chopped tree
spawn_valid(cand, obstacles) ==
    ~\E k \in 1..Len(obstacles) :
        /\ ~(obstacles[k].kind = "tree" /\ obstacles[k].is_chopped)
        /\ check_collision(enemy_rect_at(cand[1], cand[2]), stored_rect(obstacles[k]))

\* "Fallback spawn": a place on the edge of the world
edge_spawn(side, r) ==
    CASE side = 0 -> << r, WORLD_HEIGHT >>
      [] side = 1 -> << WORLD_WIDTH, r >>
      [] side = 2 -> << r, -ENEMY_SIZE >>
      [] OTHER    -> << -ENEMY_SIZE, r >>

\* spawn_enemy_ecs with the player's centre c: angles[i] is the angle drawn
\* in attempt i; the first valid candidate is taken, and the world-edge spawn
\* when no attempt was valid.
spawn_enemy_ecs(c, obstacles, angles, side, r) ==
    LET cands == [i \in 1..max_attempts |-> sample(c, angles[i])]
        ok == { i \in 1..max_attempts : spawn_valid(cands[i], obstacles) }
        first == CHOOSE i \in ok : \A j \in ok : i <= j
    IN  IF ok # {}
        THEN [enemy |-> create_enemy(cands[first][1], cands[first][2], 0, TRUE),
              from_candidate |-> TRUE]
        ELSE [enemy |-> create_enemy(edge_spawn(side, r)[1], edge_spawn(side, r)[2], 0, TRUE),
              from_candidate |-> FALSE]

\* the obstacles that GameWindow.update passes: every entity of the obstacle
\* layer
obstacle_layer(es) ==
    SelectSeq(es, LAMBDA e : e.kind \in {"rock", "tree", "wall", "door"})

SpawnEnts ==
    << create_tree(2000, 1500),
       create_structure_solid("wall", 2000, 1560),
       create_rock(2000, 1620, 40),
       [create_tree(2000, 1700) EXCEPT !.is_chopped = TRUE] >>

\* the player's centre is spawn_distance to the west of these places
SpawnXs == { 1960 + 10 * i : i \in 0..4 }
SpawnYs == { 1470 + 20 * i : i \in 0..12 }

InitSpawn ==
    /\ WorldIdle
    /\ OrderIdle
    /\ SyncIdle
    /\ TreeIdle
    /\ attempt = NoAttempt
    /\ QueueIdle
    /\ StopIdle
    /\ spatial = TRUE
    /\ HarvestIdle
    /\ DirectorIdle
    /\ \E x \in SpawnXs, y \in SpawnYs :
          pos = << x - spawn_distance - PLAYER_SIZE \div 2, y - PLAYER_SIZE \div 2 >>
    /\ wood = 0
    /\ ents = SpawnEnts
    /\ last_interact_pressed = FALSE
    /\ ticks = 0
    /\ vacated = {}
    /\ slideCase = NoSlide
    /\ reverted = NoRevert
    /\ penetrates = FALSE
    /\ frames = 1
    /\ players = << create_player(pos[1], pos[2], 1, 0) >>
    /\ enemies = << >>
    /\ projectiles = << >>
    /\ game_active = TRUE
    /\ lethal = {}
    /\ snap = NoSnap
    /\ sampled = {}
    /\ entity_ids = << >>

\* The director's spawn: the first attempt draws angle first, the later
\* ones draw angle later.
SpawnEnemy(first, later, side, r) ==
    /\ ticks < MaxSpawns
    /\ LET angles == [i \in 1..max_attempts |-> IF i = 1 THEN first ELSE later]
           s == spawn_enemy_ecs(player_center(pos), obstacle_layer(ents), angles, side, r)
       IN  /\ enemies' = Append(enemies, s.enemy)
           /\ sampled' = IF s.from_candidate THEN sampled \cup {Len(enemies) + 1}
                         ELSE sampled
    /\ ticks' = ticks + 1
    /\ UNCHANGED <<ents, frames, players, projectiles, game_active, lethal, snap>>
    /\ UNCHANGED moveVars
    /\ UNCHANGED harvestVars
    /\ UNCHANGED directorVars
    /\ UNCHANGED netVars
    /\ UNCHANGED <<worldVars, orderVars, syncVars, treeVars, attempt, queueVars,
                   stopVars, spatial, entity_ids>>

NextSpawn ==
    \E first \in SpawnAngles, later \in SpawnAngles, side \in 0..3, r \in EdgeDraws :
        SpawnEnemy(first, later, side, r)

SpecSpawn == InitSpawn /\ [][NextSpawn]_vars

\* C32 (as claimed): an enemy that spawn_enemy_ecs created from a sampled
\* candidate overlaps the collision rectangle (get_entity_rect) of no
\* unchopped obstacle that was passed to it.
C32_SpawnsClear ==
    \A j \in sampled :
        ~\E k \in 1..Len(ents) :
            /\ ~(ents[k].kind = "tree" /\ ents[k].is_chopped)
            /\ check_collision(enemy_rect(enemies[j]), get_entity_rect(ents[k]))
----------------------------------------------------------------------------
\* SpecBacking: _move_player with its obstacle candidates from the spatial
\* index or from gather_world_obstacles (src/game.py: MovementSystem,
\* SpatialPartition.query, World.get_entities_with).
\*
\* Both backings hand the candidates over in the iteration order of a set of
\* entity ids: QuadTree.retrieve adds the ids it finds to a fresh set, and
\* get_entities_with iterates the intersection of the component index sets.
\* A set of at most four ints is a table of eight slots; an id goes to slot
\* id mod 8 or, when that is taken, to the next slot of the probe sequence
\* i -> (5 * i + 1 + perturb) mod 8, and the set is iterated slot by slot.

SetSlots == 8

\* perturb >>= PERTURB_SHIFT, with PERTURB_SHIFT = 5
PerturbDivisor == 32

NoEntry == -1

empty_set == [i \in 0..(SetSlots - 1) |-> NoEntry]

\* the slot where key is found or stored
RECURSIVE set_slot(_, _, _, _)
set_slot(table, key, i, perturb) ==
    IF table[i] = NoEntry \/ table[i] = key THEN i
    ELSE set_slot(table, key,
                  (5 * i + 1 + perturb \div PerturbDivisor) % SetSlots,
                  perturb \div PerturbDivisor)

\* set.add(key)
set_add(table, key) ==
    [table EXCEPT ![set_slot(table, key, key % SetSlots, key)] = key]

\* the set that holds keys[1], keys[2], ... added in this order
RECURSIVE set_of(_, _)
set_of(keys, n) ==
    IF n = 0 THEN empty_set ELSE set_add(set_of(keys, n - 1), keys[n])

\* "for key in set": the keys slot by slot, from slot i on
RECURSIVE set_iter(_, _)
set_iter(table, i) ==
    IF i >= SetSlots THEN << >>
    ELSE IF table[i] = NoEntry THEN set_iter(table, i + 1)
         ELSE <<table[i]>> \o set_iter(table, i + 1)

\* the order in which a set built by adding keys in the given order is iterated
iteration_order(keys) == set_iter(set_of(keys, Len(keys)), 0)

\* s & t for sets none of which holds more than four keys: the keys of s
\* that t holds are added to a fresh set in the iteration order of s
rebuilt(keys) == iteration_order(keys)

\* the player entity is created first; the entities created between the
\* obstacles (stairs, for one) carry no CollisionComponent
player_entity_id == 0

\* get_entities_with(PositionComponent, SizeComponent, CollisionComponent):
\* the index set of CollisionComponent, filled in creation order, is copied
\* slot for slot and intersected with the two other index sets
entities_with_collision(ids) ==
    rebuilt(rebuilt(iteration_order(<<player_entity_id>> \o ids)))

\* the entity of ents that has the given id
by_id(es, ids, id) == es[CHOOSE k \in 1..Len(ids) : ids[k] = id]

\* the given ids that belong to obstacles, in the order given
RECURSIVE obstacles_among(_, _, _, _)
obstacles_among(es, ids, seen, n) ==
    IF n > Len(seen) THEN << >>
    ELSE IF seen[n] \in { ids[k] : k \in 1..Len(ids) }
               /\ is_obstacle(by_id(es, ids, seen[n]))
         THEN <<seen[n]>> \o obstacles_among(es, ids, seen, n + 1)
         ELSE obstacles_among(es, ids, seen, n + 1)

\* gather_world_obstacles: the ids of the obstacles in the order of
\* get_entities_with
gathered_ids(es, ids) ==
    obstacles_among(es, ids, entities_with_collision(ids), 1)

\* SpatialPartition.query('obstacles', rect): SpatialPartitionSystem inserted
\* the obstacles in the order of get_entities_with into a QuadTree that holds
\* them all in its root; retrieve adds those that meet rect to a fresh set.
queried_ids(es, ids, rect) ==
    iteration_order(
        SelectSeq(gathered_ids(es, ids),
                  LAMBDA id : check_collision(rect, get_entity_rect(by_id(es, ids, id)))))

entities_of(es, ids, seen) == [n \in 1..Len(seen) |-> by_id(es, ids, seen[n])]

\* "obstacles" of _move_player
move_candidates(use_spatial, es, ids, new0) ==
    IF use_spatial THEN entities_of(es, ids, queried_ids(es, ids, query_rect(new0)))
    ELSE entities_of(es, ids, gathered_ids(es, ids))

\* _move_player with the chosen backing
move_player_backed(use_spatial, es, ids, old, mx, my, dt) ==
    LET new0 == << old[1] + displacement(mx, my, dt), old[2] + displacement(my, mx, dt) >>
    IN  move_among(move_candidates(use_spatial, es, ids, new0), old, new0, mx, my, dt)

MaxBackingTicks == 1

BackingStart == <<1000, 1000>>

BackingFrames == { 2 }

\* ids that later entities can get
BackingIds == 1..12

BackingRocks(ax, ay) ==
    << create_rock(1026, 1008 + ay, 40), create_rock(1026 + ax, 962, 40) >>

InitBacking ==
    /\ WorldIdle
    /\ OrderIdle
    /\ SyncIdle
    /\ TreeIdle
    /\ attempt = NoAttempt
    /\ QueueIdle
    /\ StopIdle
    /\ HarvestIdle
    /\ DirectorIdle
    /\ CombatIdle
    /\ sampled = {}
    /\ spatial \in BOOLEAN
    /\ pos = BackingStart
    /\ wood = 0
    /\ \E ax \in {0, 4}, ay \in {0, 1}, lower_first \in BOOLEAN :
          ents = IF lower_first THEN BackingRocks(ax, ay)
                 ELSE << BackingRocks(ax, ay)[2], BackingRocks(ax, ay)[1] >>
    /\ \E a \in BackingIds, b \in BackingIds : a < b /\ entity_ids = <<a, b>>
    /\ last_interact_pressed = FALSE
    /\ ticks = 0
    /\ vacated = {}
    /\ slideCase = NoSlide
    /\ reverted = NoRevert
    /\ penetrates = FALSE
    /\ frames \in BackingFrames

\* One MovementSystem.update with the keys (mx, my) held.
BackingTick(mx, my) ==
    /\ ticks < MaxBackingTicks
    /\ pos' = move_player_backed(spatial, ents, entity_ids, pos, mx, my, frames).pos
    /\ ticks' = ticks + 1
    /\ UNCHANGED <<wood, last_interact_pressed, vacated, slideCase, reverted,
                   penetrates, ents, frames, entity_ids, sampled, spatial>>
    /\ UNCHANGED combatVars
    /\ UNCHANGED harvestVars
    /\ UNCHANGED directorVars
    /\ UNCHANGED netVars
    /\ UNCHANGED <<worldVars, orderVars, syncVars, treeVars, attempt, queueVars,
                   stopVars>>

NextBacking == \E mx \in {-1, 0, 1}, my \in {-1, 0, 1} : BackingTick(mx, my)

SpecBacking == InitBacking /\ [][NextBacking]_vars

\* what _move_player leaves behind: the position and the published velocity
observed(m) == << m.pos, m.velocity >>

\* C34 (as claimed): for every world state and input, MovementSystem yields
\* the same player position and published velocity whether the obstacle
\* candidates come from the spatial index or from gather_world_obstacles.
C34_BackingsAgree ==
    \A mx \in {-1, 0, 1}, my \in {-1, 0, 1} :
        observed(move_player_backed(TRUE, ents, entity_ids, pos, mx, my, frames))
            = observed(move_player_backed(FALSE, ents, entity_ids, pos, mx, my, frames))
----------------------------------------------------------------------------
\* SpecHold: the player stands within reach of the trees and holds SPACE in
\* every update (src/game.py: HarvestSystem.update).

MaxHoldTicks == 6

\* places along the row below the two trees
HoldStarts == { << 940 + 5 * i, 1000 >> : i \in 0..20 }

InitHold ==
    /\ LaterIdle
    /\ CombatIdle
    /\ DirectorIdle
    /\ pos \in HoldStarts
    /\ wood = 0
    /\ ents = << >>
    /\ last_interact_pressed = FALSE
    /\ ticks = 0
    /\ vacated = {}
    /\ slideCase = NoSlide
    /\ reverted = NoRevert
    /\ penetrates = FALSE
    /\ frames \in HarvestFrames
    /\ trees = StartTrees
    /\ harvested = 0

\* One World.update with no movement key and SPACE held.
HoldTick ==
    /\ ticks < MaxHoldTicks
    /\ \E w \in { harvest_world_update(trees, pos, 0, 0, TRUE, frames) } :
          /\ ~w.raises
          /\ pos' = w.pos
          /\ trees' = w.trees
          /\ wood' = wood + w.wood
          /\ harvested' = w.nearby_tree_id
    /\ last_interact_pressed' = TRUE
    /\ ticks' = ticks + 1
    /\ UNCHANGED <<ents, vacated, slideCase, reverted, penetrates, frames>>
    /\ UNCHANGED combatVars
    /\ UNCHANGED directorVars
    /\ UNCHANGED netVars
    /\ UNCHANGED laterVars

NextHold == HoldTick

SpecHold == InitHold /\ [][NextHold]_vars

\* the tree that is the closest one in range of the place where the player
\* has stood since the start (0: none)
held_tree == nearby_tree(StartTrees, player_center(pos), TRUE)

\* C37 (as claimed): the player holds harvest in every tick and stays where
\* an unchopped tree is the closest one in range: once the accumulated tick
\* time has reached TREE_CHOP_TIME that tree is harvested, whichever tree of
\* the World it is and whatever the tick length.
C37_HeldTreeIsHarvested ==
    (held_tree # 0 /\ ticks * frames >= TREE_CHOP_FRAMES)
        => trees[held_tree].is_chopped
----------------------------------------------------------------------------
\* SpecVolley: a projectile flies towards two enemies that stand one above
\* the other (src/game.py: CollisionSystem.update, "Projectile vs Enemy").

VolleyEnemyStarts == { <<215, 115>>, <<219, 115>> }

\* the second enemy stands above the first, touching it or 5 pixels apart
VolleyGaps == { 0, 5 }

VolleyProjectileStarts == { << 190 + 4 * i, 130 + 3 * j >> : i \in 0..3, j \in 0..3 }

InitVolley ==
    /\ LaterIdle
    /\ HarvestIdle
    /\ DirectorIdle
    /\ pos = <<0, 0>>
    /\ wood = 0
    /\ ents = CombatRocks
    /\ last_interact_pressed = FALSE
    /\ ticks = 0
    /\ vacated = {}
    /\ slideCase = NoSlide
    /\ reverted = NoRevert
    /\ penetrates = FALSE
    /\ frames \in CombatFrames
    /\ \E mode \in CombatModes, level \in 0..1 :
          /\ players = StartPlayers(mode, level)
          /\ \E s \in VolleyProjectileStarts, o \in Owners(mode) :
                projectiles = << create_projectile(s[1], s[2], PROJECTILE_SPEED, 0, o) >>
    /\ \E s \in VolleyEnemyStarts, gap \in VolleyGaps :
          enemies = << create_enemy(s[1], s[2], 0, TRUE),
                       create_enemy(s[1], s[2] + ENEMY_SIZE + gap, 0, TRUE) >>
    /\ game_active = TRUE
    /\ lethal = {}
    /\ snap = NoSnap

SpecVolley == InitVolley /\ [][NextCombat]_vars

====
